---------------------------- MODULE Spec2Model ----------------------------
(***************************************************************************)
(* reisekosten: monthly travel-expense reports.                            *)
(*                                                                         *)
(* The module models the program of src/unnamed/part_002 (version 1.4.0,   *)
(* per-customer provinces, documents built in memory):                     *)
(*   - the civil calendar the program reads through time.Date,             *)
(*   - the holiday rules of the 16 provinces behind provinceHolidays,      *)
(*   - newBusinessCalendar, getCustomerCalendars, isWorkday,               *)
(*   - parseMonthYear, daysInMonth, formatDate, loadConfig,                *)
(*   - main: version flag, configuration, the round-robin distribution.    *)
(* The christmasWeekOff option (changelog 1.5.0) is exercised by           *)
(* src/main_test.go but its implementation is not among the sources; it    *)
(* is modelled from the specification (ChristmasWeekOffEnabled,            *)
(* isBusinessDay) on top of the isWorkday of the sources.                  *)
(***************************************************************************)
EXTENDS Integers, Sequences, FiniteSets, TLC

(***************************************************************************)
(* Bounds of the model.                                                    *)
(***************************************************************************)
\* Largest number of customers in a configuration.
MaxCustomers == 2
\* Number of consecutive years, from FirstYear on, the target month is drawn from.
NumYears == 3

\* First year accepted by monthArgRegex is 2000; the inputs start here.
FirstYear == 2024

Years == FirstYear .. (FirstYear + NumYears - 1)
Months == 1 .. 12

(***************************************************************************)
(* Strings are sequences of one-character strings, so that formatting and *)
(* parsing are computed and not assumed.                                   *)
(***************************************************************************)
Digits == <<"0", "1", "2", "3", "4", "5", "6", "7", "8", "9">>

RECURSIVE Itoa(_)
\* fmt "%d" of a non-negative integer.
Itoa(n) == IF n < 10 THEN <<Digits[n + 1]>>
           ELSE Itoa(n \div 10) \o <<Digits[(n % 10) + 1]>>

\* fmt "%02d" of a non-negative integer: zero-padded to at least two digits.
Pad2(n) == IF n < 10 THEN <<"0">> \o Itoa(n) ELSE Itoa(n)

\* The decimal digit characters with their values.
DigitValues == [c \in {Digits[i] : i \in 1..10} |-> (CHOOSE i \in 1..10 : Digits[i] = c) - 1]

\* Value of a decimal digit character, -1 for any other character.
DigitVal(c) == IF c \in DOMAIN DigitValues THEN DigitValues[c] ELSE -1

IsDigit(c) == DigitVal(c) >= 0

RECURSIVE Atoi(_)
\* strconv.Atoi of a non-empty string of digits.
Atoi(s) == IF Len(s) = 0 THEN 0
           ELSE 10 * Atoi(SubSeq(s, 1, Len(s) - 1)) + DigitVal(s[Len(s)])

\* Variant of formatDate that formats the month in place of the day.
formatDate_MonthTwice(y, m, d) == Pad2(m) \o <<".">> \o Pad2(m) \o <<".">> \o Itoa(y)

\* formatDate: "%02d.%02d.%d" of day, month, year.
formatDate(y, m, d) == Pad2(d) \o <<".">> \o Pad2(m) \o <<".">> \o Itoa(y)

(***************************************************************************)
(* Civil calendar, as time.Date(...).Day(), .Month(), .Weekday() give it. *)
(***************************************************************************)
\* Days since 1970-01-01 of a proleptic Gregorian date (month in 1..12).
DaysFromCivil(y, m, d) ==
    LET yy  == IF m <= 2 THEN y - 1 ELSE y
        era == yy \div 400
        yoe == yy - era * 400
        mp  == IF m > 2 THEN m - 3 ELSE m + 9
        doy == (153 * mp + 2) \div 5 + d - 1
        doe == yoe * 365 + yoe \div 4 - yoe \div 100 + doy
    IN  era * 146097 + doe - 719468

\* The date of a day number: the inverse of DaysFromCivil.
CivilFromDays(z) ==
    LET zz  == z + 719468
        era == zz \div 146097
        doe == zz - era * 146097
        yoe == (doe - doe \div 1460 + doe \div 36524 - doe \div 146096) \div 365
        doy == doe - (365 * yoe + yoe \div 4 - yoe \div 100)
        mp  == (5 * doy + 2) \div 153
        d   == doy - (153 * mp + 2) \div 5 + 1
        m   == IF mp < 10 THEN mp + 3 ELSE mp - 9
        y   == yoe + era * 400 + (IF m <= 2 THEN 1 ELSE 0)
    IN  [year |-> y, month |-> m, day |-> d]

\* time.Date(year, month, day, 0,0,0,0, UTC): month and day outside their
\* ranges are normalised (month 13 is January of the next year, day 0 is
\* the last day of the previous month).
timeDate(y, m, d) ==
    LET ny == y + (m - 1) \div 12
        nm == ((m - 1) % 12) + 1
    IN  CivilFromDays(DaysFromCivil(ny, nm, 1) + (d - 1))

\* time.Weekday: 0 = Sunday .. 6 = Saturday.
Weekday(y, m, d) == (DaysFromCivil(y, m, d) + 4) % 7

\* Variant of daysInMonth that takes day 0 of the month itself.
daysInMonth_DayZeroOfMonth(y, m) == timeDate(y, m, 0).day

\* daysInMonth: the day of "day 0 of the next month".
daysInMonth(y, m) == timeDate(y, m + 1, 0).day

(***************************************************************************)
(* Holiday rules of github.com/rickar/cal/v2/de, the slices the table     *)
(* provinceHolidays refers to.  A rule is named; HolidayOn says whether a  *)
(* rule falls on a date.                                                   *)
(***************************************************************************)
\* Easter Sunday of a year (Gregorian computus), as a day number.
EasterDay(y) ==
    LET a == y % 19
        b == y \div 100
        c == y % 100
        d == b \div 4
        e == b % 4
        f == (b + 8) \div 25
        g == (b - f + 1) \div 3
        h == (19 * a + b - d - g + 15) % 30
        i == c \div 4
        k == c % 4
        l == (32 + 2 * e + 2 * i - h - k) % 7
        mm == (a + 11 * h + 22 * l) \div 451
        mo == (h + l - 7 * mm + 114) \div 31
        dy == ((h + l - 7 * mm + 114) % 31) + 1
    IN  DaysFromCivil(y, mo, dy)

\* Buss- und Bettag: the Wednesday before 23 November, as a day number.
BussUndBettagDay(y) ==
    LET n22 == DaysFromCivil(y, 11, 22)
        back == (((n22 + 4) % 7) - 3 + 7) % 7
    IN  n22 - back

\* Holidays every province observes.
holidaysDE == {"Neujahr", "Karfreitag", "Ostermontag", "TagDerArbeit",
               "ChristiHimmelfahrt", "Pfingstmontag", "TagDerDeutschenEinheit",
               "Reformationstag2017", "ErsterWeihnachtsfeiertag",
               "ZweiterWeihnachtsfeiertag"}

HolidaysBW == holidaysDE \cup {"HeiligeDreiKoenige", "Fronleichnam", "Allerheiligen"}
HolidaysBY == holidaysDE \cup {"HeiligeDreiKoenige", "Fronleichnam", "MariaHimmelfahrt",
                               "Allerheiligen"}
HolidaysBE == holidaysDE \cup {"Frauentag", "TagDerBefreiung"}
HolidaysBB == holidaysDE \cup {"Ostersonntag", "Pfingstsonntag", "Reformationstag"}
HolidaysHB == holidaysDE \cup {"Reformationstag"}
HolidaysHH == holidaysDE \cup {"Reformationstag"}
HolidaysHE == holidaysDE \cup {"Fronleichnam"}
HolidaysMV == holidaysDE \cup {"Reformationstag"}
HolidaysNI == holidaysDE \cup {"Reformationstag"}
HolidaysNW == holidaysDE \cup {"Fronleichnam", "Allerheiligen"}
HolidaysRP == holidaysDE \cup {"Fronleichnam", "Allerheiligen"}
HolidaysSL == holidaysDE \cup {"Fronleichnam", "MariaHimmelfahrt", "Allerheiligen"}
HolidaysSN == holidaysDE \cup {"Reformationstag", "BussUndBettag"}
HolidaysST == holidaysDE \cup {"HeiligeDreiKoenige", "Reformationstag"}
HolidaysSH == holidaysDE \cup {"Reformationstag"}
HolidaysTH == holidaysDE \cup {"Weltkindertag", "Reformationstag"}

\* The rules by name.  A rule is a fixed day of a month, valid from a
\* first to a last year, or a number of days after Easter Sunday, or the
\* Wednesday before 23 November.
Fixed(m, d, from, to) == [kind |-> "fixed", month |-> m, day |-> d,
                          from |-> from, to |-> to, offset |-> 0]
AfterEaster(n) == [kind |-> "easter", month |-> 0, day |-> 0,
                   from |-> 0, to |-> 9999, offset |-> n]

HolidayRules ==
    [h \in UNION {HolidaysBW, HolidaysBY, HolidaysBE, HolidaysBB, HolidaysHB, HolidaysHH,
                  HolidaysHE, HolidaysMV, HolidaysNI, HolidaysNW, HolidaysRP, HolidaysSL,
                  HolidaysSN, HolidaysST, HolidaysSH, HolidaysTH} |->
        CASE h = "Neujahr"                   -> Fixed(1, 1, 0, 9999)
          [] h = "HeiligeDreiKoenige"        -> Fixed(1, 6, 0, 9999)
          [] h = "Frauentag"                 -> Fixed(3, 8, 2019, 9999)
          [] h = "Karfreitag"                -> AfterEaster(-2)
          [] h = "Ostersonntag"              -> AfterEaster(0)
          [] h = "Ostermontag"               -> AfterEaster(1)
          [] h = "TagDerArbeit"              -> Fixed(5, 1, 0, 9999)
          [] h = "TagDerBefreiung"           -> Fixed(5, 8, 2020, 2020)
          [] h = "ChristiHimmelfahrt"        -> AfterEaster(39)
          [] h = "Pfingstsonntag"            -> AfterEaster(49)
          [] h = "Pfingstmontag"             -> AfterEaster(50)
          [] h = "Fronleichnam"              -> AfterEaster(60)
          [] h = "MariaHimmelfahrt"          -> Fixed(8, 15, 0, 9999)
          [] h = "Weltkindertag"             -> Fixed(9, 20, 2019, 9999)
          [] h = "TagDerDeutschenEinheit"    -> Fixed(10, 3, 0, 9999)
          [] h = "Reformationstag"           -> Fixed(10, 31, 0, 9999)
          [] h = "Reformationstag2017"       -> Fixed(10, 31, 2017, 2017)
          [] h = "Allerheiligen"             -> Fixed(11, 1, 0, 9999)
          [] h = "BussUndBettag"             -> [Fixed(11, 22, 0, 9999) EXCEPT
                                                    !.kind = "wednesdayBefore"]
          [] h = "ErsterWeihnachtsfeiertag"  -> Fixed(12, 25, 0, 9999)
          [] h = "ZweiterWeihnachtsfeiertag" -> Fixed(12, 26, 0, 9999)]

\* Easter Sunday of the years the runs are about, computed once.
EasterDays == [y \in FirstYear..(FirstYear + NumYears) |-> EasterDay(y)]
EasterOf(y) == IF y \in DOMAIN EasterDays THEN EasterDays[y] ELSE EasterDay(y)

\* Whether the named holiday rule falls on the date y-m-d.
HolidayOn(h, y, m, d) ==
    LET r == HolidayRules[h]
    IN  IF r.kind = "fixed"
        THEN m = r.month /\ d = r.day /\ y >= r.from /\ y <= r.to
        ELSE IF r.kind = "easter"
        THEN DaysFromCivil(y, m, d) = EasterOf(y) + r.offset
        ELSE DaysFromCivil(y, m, d) = BussUndBettagDay(y)

(***************************************************************************)
(* Business calendar.                                                      *)
(***************************************************************************)
\* provinceHolidays: German state abbreviation -> holiday slice.
provinceHolidays ==
    [p \in {"BW", "BY", "BE", "BB", "HB", "HH", "HE", "MV",
            "NI", "NW", "RP", "SL", "SN", "ST", "SH", "TH"} |->
        CASE p = "BW" -> HolidaysBW [] p = "BY" -> HolidaysBY
          [] p = "BE" -> HolidaysBE [] p = "BB" -> HolidaysBB
          [] p = "HB" -> HolidaysHB [] p = "HH" -> HolidaysHH
          [] p = "HE" -> HolidaysHE [] p = "MV" -> HolidaysMV
          [] p = "NI" -> HolidaysNI [] p = "NW" -> HolidaysNW
          [] p = "RP" -> HolidaysRP [] p = "SL" -> HolidaysSL
          [] p = "SN" -> HolidaysSN [] p = "ST" -> HolidaysST
          [] p = "SH" -> HolidaysSH [] p = "TH" -> HolidaysTH]

\* Variant of newBusinessCalendar without the default: no holidays at all
\* for a code that is not a key of the table.
newBusinessCalendar_NoDefault(province) ==
    [Name |-> "Rummeyer Consulting GmbH",
     holidays |-> IF province \in DOMAIN provinceHolidays
                  THEN provinceHolidays[province] ELSE {}]

\* newBusinessCalendar: the calendar of a province; a code that is not a
\* key of provinceHolidays gets the holidays of Baden-Wuerttemberg.
newBusinessCalendar(province) ==
    LET ok == province \in DOMAIN provinceHolidays
        holidays == IF ok THEN provinceHolidays[province] ELSE HolidaysBW
    IN  [Name |-> "Rummeyer Consulting GmbH", holidays |-> holidays]

\* cal.BusinessCalendar.IsHoliday: some holiday of the calendar falls on the date.
calIsHoliday(c, y, m, d) == \E h \in c.holidays : HolidayOn(h, y, m, d)

\* Variant of IsWeekend that takes Sunday alone for the weekend.
IsWeekend_SundayOnly(y, m, d) == Weekday(y, m, d) = 0

\* Variant of IsWeekend that takes Saturday alone for the weekend.
IsWeekend_SaturdayOnly(y, m, d) == Weekday(y, m, d) = 6

\* Saturday or Sunday.
IsWeekend(y, m, d) == Weekday(y, m, d) \in {0, 6}

\* Variant of calIsWorkday that asks for holidays only (IsHoliday in place
\* of IsWorkday).
calIsWorkday_HolidayOnly(c, y, m, d) == ~calIsHoliday(c, y, m, d)

\* cal.BusinessCalendar.IsWorkday: Monday to Friday and no holiday.
calIsWorkday(c, y, m, d) == ~IsWeekend(y, m, d) /\ ~calIsHoliday(c, y, m, d)

\* Variant of InChristmasWeek that does not ask for the month.
InChristmasWeek_AnyMonth(m, d) == d = 24 \/ (d >= 27 /\ d <= 31)

\* Variant of InChristmasWeek whose range starts one day late.
InChristmasWeek_OffByOne(m, d) == m = 12 /\ (d = 24 \/ (d > 27 /\ d <= 31))

\* The special December dates: the 24th and the 27th to the 31st.
InChristmasWeek(m, d) == m = 12 /\ (d = 24 \/ (d >= 27 /\ d <= 31))

\* Variant of isWorkday without the special December dates.
isWorkday_CalendarOnly(c, y, m, d) == calIsWorkday(c, y, m, d)

\* isWorkday: a valid workday for expense reporting.
isWorkday(c, y, m, d) ==
    IF ~calIsWorkday(c, y, m, d) THEN FALSE
    ELSE IF InChristmasWeek(m, d) THEN FALSE
    ELSE TRUE

\* ChristmasWeekOffEnabled: the option is on unless it is set to false.
ChristmasWeekOffEnabled(setting) == IF setting = "nil" THEN TRUE ELSE setting = "true"

\* isWorkday with the christmasWeekOff option: with the option on it is the
\* isWorkday above; with it off only the calendar decides.
isBusinessDay(c, y, m, d, christmasWeekOff) ==
    IF christmasWeekOff THEN isWorkday(c, y, m, d) ELSE calIsWorkday(c, y, m, d)

(***************************************************************************)
(* Command line and configuration.                                         *)
(***************************************************************************)
\* The flags that print the version.
VersionLong  == <<"-", "-", "v", "e", "r", "s", "i", "o", "n">>
VersionShort == <<"-", "v">>

\* Variant of monthArgMatch that accepts any four digits for the year.
monthArgMatch_AnyYear(s) ==
    /\ Len(s) \in {6, 7}
    /\ LET k  == Len(s) - 4
           mo == SubSeq(s, 1, k - 1)
           yr == SubSeq(s, k + 1, Len(s))
       IN  /\ s[k] = "/"
           /\ \A j \in 1..4 : IsDigit(yr[j])
           /\ \/ Len(mo) = 1 /\ DigitVal(mo[1]) \in 1..9
              \/ Len(mo) = 2 /\ mo[1] = "0" /\ DigitVal(mo[2]) \in 1..9
              \/ Len(mo) = 2 /\ mo[1] = "1" /\ DigitVal(mo[2]) \in 0..2

\* monthArgRegex: ^(0?[1-9]|1[0-2])/(20[0-9]{2})$
monthArgMatch(s) ==
    /\ Len(s) \in {6, 7}
    /\ LET k  == Len(s) - 4
           mo == SubSeq(s, 1, k - 1)
           yr == SubSeq(s, k + 1, Len(s))
       IN  /\ s[k] = "/"
           /\ yr[1] = "2" /\ yr[2] = "0" /\ IsDigit(yr[3]) /\ IsDigit(yr[4])
           /\ \/ Len(mo) = 1 /\ DigitVal(mo[1]) \in 1..9
              \/ Len(mo) = 2 /\ mo[1] = "0" /\ DigitVal(mo[2]) \in 1..9
              \/ Len(mo) = 2 /\ mo[1] = "1" /\ DigitVal(mo[2]) \in 0..2

RECURSIVE SplitSlash(_)
\* strings.Split(s, "/")
SplitSlash(s) ==
    IF \E i \in 1..Len(s) : s[i] = "/"
    THEN LET i == CHOOSE j \in 1..Len(s) :
                      s[j] = "/" /\ \A k \in 1..(j - 1) : s[k] # "/"
         IN  <<SubSeq(s, 1, i - 1)>> \o SplitSlash(SubSeq(s, i + 1, Len(s)))
    ELSE <<s>>

\* parseMonthYear: the month and year of the first argument if it matches
\* monthArgRegex, the current date's otherwise.  osArgs[1] is the program
\* name (os.Args[0]), osArgs[2] the first argument.
parseMonthYear(osArgs, today) ==
    IF Len(osArgs) > 1 /\ monthArgMatch(osArgs[2])
    THEN LET parts == SplitSlash(osArgs[2])
         IN  [year |-> Atoi(parts[2]), month |-> Atoi(parts[1])]
    ELSE [year |-> today.year, month |-> today.month]

\* Variant of loadConfig without the check for an empty customer list.
loadConfig_NoEmptyCheck(file) ==
    IF file.status = "unreadable"
    THEN [err |-> "failed to read config file", cfg |-> <<>>]
    ELSE IF file.status = "malformed"
    THEN [err |-> "failed to parse config file", cfg |-> <<>>]
    ELSE [err |-> "nil",
          cfg |-> [Customers |-> file.customers, Email |-> file.email,
                   ChristmasWeekOff |-> file.christmasWeekOff]]

\* Variant of loadConfig with a plain boolean for the option: a file that
\* does not set it yields false.
loadConfig_PlainBool(file) ==
    IF file.status = "unreadable"
    THEN [err |-> "failed to read config file", cfg |-> <<>>]
    ELSE IF file.status = "malformed"
    THEN [err |-> "failed to parse config file", cfg |-> <<>>]
    ELSE IF Len(file.customers) = 0
    THEN [err |-> "no customers configured", cfg |-> <<>>]
    ELSE [err |-> "nil",
          cfg |-> [Customers |-> file.customers, Email |-> file.email,
                   ChristmasWeekOff |-> IF file.christmasWeekOff = "nil" THEN "false"
                                        ELSE file.christmasWeekOff]]

\* loadConfig: the configuration, or an error when the file cannot be read,
\* cannot be parsed or lists no customer.
loadConfig(file) ==
    IF file.status = "unreadable"
    THEN [err |-> "failed to read config file", cfg |-> <<>>]
    ELSE IF file.status = "malformed"
    THEN [err |-> "failed to parse config file", cfg |-> <<>>]
    ELSE IF Len(file.customers) = 0
    THEN [err |-> "no customers configured", cfg |-> <<>>]
    ELSE [err |-> "nil",
          cfg |-> [Customers |-> file.customers, Email |-> file.email,
                   ChristmasWeekOff |-> file.christmasWeekOff]]

\* Variant of getCustomerCalendars with one global calendar (that of
\* Baden-Wuerttemberg) for every customer.
getCustomerCalendars_Global(customers) ==
    [i \in 0..(Len(customers) - 1) |-> newBusinessCalendar("BW")]

\* getCustomerCalendars: one calendar per customer, by the customer's
\* province; index i (from 0) is the calendar of customer i.
getCustomerCalendars(customers) ==
    [i \in 0..(Len(customers) - 1) |-> newBusinessCalendar(customers[i + 1].Province)]

(***************************************************************************)
(* Documents.  A text is a sequence of strings; every line feed is a       *)
(* string of its own (NL), so that strings.Count(text, "\n") is computed.  *)
(* Amounts are in cents: the float64 values of the program (a day count    *)
(* times a whole number of kilometres times 0.30, or 14.0 times a day      *)
(* count) are within a billionth of a cent of a multiple of ten cents, so  *)
(* "%.2f" prints exactly the cents computed here.                          *)
(***************************************************************************)
\* EUR per kilometre, in cents.
kmRatePerKm == 30
\* Meal allowance for 8h < 24h per day, in cents.
verpflegungRate == 1400
\* Line height of the PDF, in 1/100000 mm.
pdfLineHeight == 500000
\* Width of the separator lines.
lineWidth == 75

NL == "\n"

\* The list a Go map holds for a key (the nil slice when the key is absent).
ListOf(map, i) == IF i \in DOMAIN map THEN map[i] ELSE <<>>

lineSingle == "---------------------------------------------------------------------------"
lineDouble == "==========================================================================="

RECURSIVE len(_)
\* len(s) of a text, in bytes.
len(s) == IF s = <<>> THEN 0 ELSE Len(Head(s)) + len(Tail(s))

\* strings.Count(s, "\n")
stringsCount(s) == Cardinality({i \in 1..Len(s) : s[i] = NL})

\* strings.Repeat(" ", n) for n below 128, put together from blocks of
\* 64, 32, 16, 8, 4, 2 and 1 blanks.
stringsRepeat(n) ==
    LET b1  == " "
        b2  == b1 \o b1
        b4  == b2 \o b2
        b8  == b4 \o b4
        b16 == b8 \o b8
        b32 == b16 \o b16
        b64 == b32 \o b32
        part(w, b) == IF (n \div w) % 2 = 1 THEN b ELSE ""
    IN  IF n <= 0 THEN ""
        ELSE part(64, b64) \o part(32, b32) \o part(16, b16) \o part(8, b8)
                 \o part(4, b4) \o part(2, b2) \o part(1, b1)

\* strings.ToUpper of the two document titles.
stringsToUpper(title) ==
    CASE title = "Kilometergelderstattung" -> "KILOMETERGELDERSTATTUNG"
      [] title = "Verpflegungsmehraufwand" -> "VERPFLEGUNGSMEHRAUFWAND"
      [] OTHER -> title

\* formatAmount: "%.2f" with a decimal comma.
formatAmount(amount) == Itoa(amount \div 100) \o <<",">> \o Pad2(amount % 100)

\* rightAlign: s padded on the left with blanks to the width.
rightAlign(s, width) ==
    IF len(s) >= width THEN s ELSE <<stringsRepeat(width - len(s))>> \o s

\* The characters of the document reference number.
charset == <<"A", "B", "C", "D", "E", "F", "G", "H", "I", "J", "K", "L", "M",
             "N", "O", "P", "Q", "R", "S", "T", "U", "V", "W", "X", "Y", "Z",
             "0", "1", "2", "3", "4", "5", "6", "7", "8", "9">>

\* Variant of documentID that prints the month without padding.
documentID_NoPadding(y, m, b) ==
    <<"RK-">> \o Itoa(y) \o <<"-">> \o Itoa(m) \o <<"-">>
        \o [i \in 1..4 |-> charset[(b[i] % Len(charset)) + 1]]

\* documentID: RK-YYYY-MM-XXXX; b are the four bytes rand.Read delivers.
documentID(y, m, b) ==
    <<"RK-">> \o Itoa(y) \o <<"-">> \o Pad2(m) \o <<"-">>
        \o [i \in 1..4 |-> charset[(b[i] % Len(charset)) + 1]]

\* Variant of buildDocumentHeader that prints the start of the period twice.
buildDocumentHeader_StartTwice(y, m, dateString, periodStart, periodEnd, title, b) ==
    LET header  == <<stringsToUpper(title), " ">> \o Pad2(m) \o <<"/">> \o Itoa(y)
        padding == (lineWidth - len(header)) \div 2
    IN  <<lineDouble, NL>>
        \o <<stringsRepeat(padding)>> \o header \o <<NL>>
        \o <<lineDouble, NL, NL>>
        \o <<"Beleg-Nr.:            ">> \o documentID(y, m, b) \o <<NL>>
        \o <<"Datum:                ">> \o dateString \o <<NL>>
        \o <<"Rechnungsart:         Reisekosten - ", title, NL>>
        \o <<"Abrechnungszeitraum:  ">> \o periodStart \o <<" - ">> \o periodStart \o <<NL>>
        \o <<NL>>

\* buildDocumentHeader: title block and document metadata; b are the random
\* bytes of the reference number.
buildDocumentHeader(y, m, dateString, periodStart, periodEnd, title, b) ==
    LET header  == <<stringsToUpper(title), " ">> \o Pad2(m) \o <<"/">> \o Itoa(y)
        padding == (lineWidth - len(header)) \div 2
    IN  <<lineDouble, NL>>
        \o <<stringsRepeat(padding)>> \o header \o <<NL>>
        \o <<lineDouble, NL, NL>>
        \o <<"Beleg-Nr.:            ">> \o documentID(y, m, b) \o <<NL>>
        \o <<"Datum:                ">> \o dateString \o <<NL>>
        \o <<"Rechnungsart:         Reisekosten - ", title, NL>>
        \o <<"Abrechnungszeitraum:  ">> \o periodStart \o <<" - ">> \o periodEnd \o <<NL>>
        \o <<NL>>

\* buildCustomerHeader: the trip information of a customer.
buildCustomerHeader(c) ==
    <<lineSingle, NL>>
    \o <<c.ID, ") ", c.Name, NL>>
    \o <<lineSingle, NL, NL>>
    \o <<"Von:    ", c.From, NL>>
    \o <<"Nach:   ", c.To, NL>>
    \o <<"Grund:  ", c.Reason, NL, NL>>

\* Variant of buildKilometerEntry that pays the way there and back.
buildKilometerEntry_RoundTrip(dateString, distanceKm) ==
    LET amount    == 2 * distanceKm * kmRatePerKm
        amountStr == formatAmount(amount) \o <<" EUR">>
        label     == <<"Fahrkosten (">> \o Itoa(distanceKm) \o <<" km x 0,30 EUR)">>
    IN  <<"  ">> \o dateString \o <<NL>>
        \o <<"    ">> \o label \o rightAlign(amountStr, 45 - len(label)) \o <<NL, NL>>

\* buildKilometerEntry: one mileage entry for a date.
buildKilometerEntry(dateString, distanceKm) ==
    LET amount    == distanceKm * kmRatePerKm
        amountStr == formatAmount(amount) \o <<" EUR">>
        label     == <<"Fahrkosten (">> \o Itoa(distanceKm) \o <<" km x 0,30 EUR)">>
    IN  <<"  ">> \o dateString \o <<NL>>
        \o <<"    ">> \o label \o rightAlign(amountStr, 45 - len(label)) \o <<NL, NL>>

\* buildMealAllowanceEntry: one meal allowance entry for a date.
buildMealAllowanceEntry(dateString) ==
    LET amountStr == <<"14,00 EUR">>
    IN  <<"  ">> \o dateString \o <<"  (07:00 - 17:00)", NL>>
        \o <<"    Verpflegungsmehraufwand (8h - 24h)">>
        \o rightAlign(amountStr, 45 - Len("Verpflegungsmehraufwand (8h - 24h)"))
        \o <<NL, NL>>

\* buildDocumentFooter: the footer with the total amount.
buildDocumentFooter(totalAmount) ==
    LET amountStr == formatAmount(totalAmount) \o <<" EUR">>
    IN  <<lineSingle, NL>>
        \o <<"GESAMTBETRAG:">> \o rightAlign(amountStr, 62) \o <<NL>>
        \o <<lineDouble, NL>>

(***************************************************************************)
(* PDF.  Lengths are in 1/100000 mm.  fpdf.New("P", "mm", "A4", "") gives  *)
(* a page of 841.89 pt, margins of 28.35 pt and a page break margin of     *)
(* twice that; each Cell of a MultiCell that would reach beyond the page   *)
(* break trigger starts a new page by itself.                              *)
(***************************************************************************)
\* Height of an A4 page.
pdfPageHeight == 29700008
\* Left, top and right margin.
pdfMargin == 1000125
\* Bottom margin, as GetMargins returns it.
pdfMarginBottom == 2 * pdfMargin

\* fpdf.New: no page yet.
pdfNew == [page |-> 0, y |-> 0, placed |-> <<>>]

\* fpdf.AddPage: the next page, the cursor at the top margin.
pdfAddPage(pdf) == [pdf EXCEPT !.page = pdf.page + 1, !.y = pdfMargin]

RECURSIVE pdfCells(_, _, _)
\* n cells of one line each, below each other; `pages` collects the pages
\* the cells are written on.
pdfCells(pdf, n, pages) ==
    IF n = 0 THEN [pdf |-> pdf, pages |-> pages]
    ELSE LET p == IF pdf.y + pdfLineHeight > pdfPageHeight - pdfMarginBottom
                  THEN pdfAddPage(pdf) ELSE pdf
         IN  pdfCells([p EXCEPT !.y = p.y + pdfLineHeight], n - 1, pages \cup {p.page})

\* fpdf.MultiCell(cellWidth, pdfLineHeight, txt, ...): one trailing line
\* feed is dropped, then one cell per line.  The text's placement (the
\* cursor before and after, the pages written on) is recorded.
pdfMultiCell(pdf, txt) ==
    LET s == IF Len(txt) > 0 /\ txt[Len(txt)] = NL THEN SubSeq(txt, 1, Len(txt) - 1) ELSE txt
        r == pdfCells(pdf, stringsCount(s) + 1, {})
    IN  [r.pdf EXCEPT !.placed = Append(pdf.placed,
                                  [page |-> pdf.page, y |-> pdf.y,
                                   pages |-> r.pages, yEnd |-> r.pdf.y])]

\* Variant of pdfBlock without the page break before a block that does
\* not fit.
pdfBlock_NoCheck(pdf, block) == pdfMultiCell(pdf, block)

\* The body of the loop of createPDF over the blocks: a page break before
\* a block that does not fit, then the block.
pdfBlock(pdf, block) ==
    LET maxY        == pdfPageHeight - pdfMarginBottom
        blockHeight == (stringsCount(block) + 1) * pdfLineHeight
        p           == IF pdf.y + blockHeight > maxY THEN pdfAddPage(pdf) ELSE pdf
    IN  pdfMultiCell(p, block)

RECURSIVE pdfBlocks(_, _)
\* The loop of createPDF over the blocks, from the first to the last: the
\* first half of the blocks is laid out, then the second half (without a
\* page there is nothing to continue on).
pdfBlocks(pdf, blocks) ==
    IF Len(blocks) = 0 THEN pdf
    ELSE IF Len(blocks) = 1 THEN pdfBlock(pdf, blocks[1])
    ELSE LET half  == Len(blocks) \div 2
             first == pdfBlocks(pdf, SubSeq(blocks, 1, half))
         IN  IF first.page = 0 THEN first
             ELSE pdfBlocks(first, SubSeq(blocks, half + 1, Len(blocks)))

\* createPDF: header, blocks and footer with page breaks between blocks.
createPDF(header, blocks, footer) ==
    LET maxY         == pdfPageHeight - pdfMarginBottom
        p0           == pdfMultiCell(pdfAddPage(pdfNew), header)
        p1           == pdfBlocks(p0, blocks)
        footerHeight == (stringsCount(footer) + 1) * pdfLineHeight
        p2           == IF p1.y + footerHeight > maxY THEN pdfAddPage(p1) ELSE p1
    IN  pdfMultiCell(p2, footer)

(***************************************************************************)
(* Inputs the runs are drawn from.                                         *)
(***************************************************************************)
Program == <<"r", "e", "i", "s", "e", "k", "o", "s", "t", "e", "n">>

\* Customers a configuration is made of.
CustomerPool ==
    { [ID |-> "1", Name |-> "Kunde A", From |-> "Stuttgart", To |-> "Karlsruhe",
       Reason |-> "Projekt", Province |-> "BW", Distance |-> 42],
      [ID |-> "2", Name |-> "Kunde B", From |-> "Stuttgart", To |-> "Dresden",
       Reason |-> "Beratung", Province |-> "SN", Distance |-> 120],
      [ID |-> "3", Name |-> "Kunde C", From |-> "Stuttgart", To |-> "Esslingen",
       Reason |-> "Workshop", Province |-> "", Distance |-> 7] }

\* Customer lists of a configuration: up to MaxCustomers different customers.
CustomerLists ==
    UNION { {cs \in [1..n -> CustomerPool] : \A a, b \in 1..n : a # b => cs[a] # cs[b]} :
            n \in 0..MaxCustomers }

\* The email section of a configuration.
EmailInput == [From |-> "reisekosten@example.org", To |-> "buchhaltung@example.org"]

ConfigInputs ==
    { [status |-> "ok", customers |-> cs, christmasWeekOff |-> w, email |-> EmailInput] :
          cs \in CustomerLists, w \in {"nil", "true", "false"} }
    \cup { [status |-> st, customers |-> <<>>, christmasWeekOff |-> "nil",
             email |-> EmailInput] :
          st \in {"unreadable", "malformed"} }

\* "M/YYYY", and "MM/YYYY" when padded.
MonthArg(y, m, padded) == (IF padded THEN Pad2(m) ELSE Itoa(m)) \o <<"/">> \o Itoa(y)

\* Arguments that do not match monthArgRegex.
BadArgs == { <<"1", "3", "/", "2", "0", "2", "6">>,
             <<"2", "/", "1", "9", "9", "9">>,
             <<"2", "0", "2", "6", "-", "0", "2">> }

LastYear == FirstYear + NumYears - 1

\* Command lines with the date of the run.
RunInputs ==
    { [osArgs |-> <<Program, MonthArg(y, m, FALSE)>>,
       now |-> [year |-> LastYear, month |-> 6]] : y \in Years, m \in Months }
    \cup { [osArgs |-> <<Program, MonthArg(FirstYear, m, TRUE)>>,
            now |-> [year |-> LastYear, month |-> 6]] : m \in 1..9 }
    \cup { [osArgs |-> <<Program>>,
            now |-> [year |-> LastYear, month |-> m]] : m \in Months }
    \cup { [osArgs |-> <<Program, a>>,
            now |-> [year |-> LastYear, month |-> 2]] : a \in BadArgs }
    \cup { [osArgs |-> <<Program, a>>,
            now |-> [year |-> LastYear, month |-> 6]] : a \in {VersionLong, VersionShort} }

(***************************************************************************)
(* State.                                                                  *)
(***************************************************************************)
VARIABLES
    osArgs,          \* os.Args
    now,             \* year and month of time.Now()
    cfgFile,         \* the configuration file on disk
    pc,              \* position in main
    cfg,             \* the loaded configuration
    calendars,       \* calendars[i]: calendar of customer i
    year, month,     \* target month
    numDays,         \* days of the target month
    day,             \* loop variable of the distribution
    customerDays,    \* map customer index -> assigned date strings
    customerIdx,     \* the round-robin cursor
    lastDateString,  \* the last assigned date
    totalWorkdays,   \* number of assigned days
    filterLog,       \* the isWorkday calls of the distribution, in order
    test,            \* a direct call of newBusinessCalendar and isWorkday
    firstDateString, \* the first assigned date
    kmBlocks, verpBlocks,   \* the content blocks of the two documents
    totalKmCost,     \* the mileage cost of all customers
    kmHeader, verpHeader,   \* the document headers
    kmFooter, verpFooter,   \* the document footers
    kmData, verpData,       \* the rendered documents
    outbox,          \* the emails delivered
    firstRun,        \* the results of an earlier run with the same inputs
    files            \* the PDF files on disk (versions of main that write files)

\* The documents of a run, from the blocks to the email.
docVars == <<kmBlocks, verpBlocks, totalKmCost, kmHeader, verpHeader, kmFooter,
             verpFooter, kmData, verpData, outbox>>

vars == <<osArgs, now, cfgFile, pc, cfg, calendars, year, month, numDays, day,
          customerDays, customerIdx, lastDateString, totalWorkdays, filterLog, test,
          firstDateString, docVars, firstRun, files>>

NoConfig == [Customers |-> <<>>, Email |-> [From |-> "", To |-> ""],
             ChristmasWeekOff |-> "nil"]
NoCalendar == [Name |-> "", holidays |-> {}]
NoTest == [step |-> "none", province |-> "", year |-> 0, month |-> 0, day |-> 0,
           christmasWeekOff |-> FALSE, cal |-> NoCalendar, got |-> FALSE, days |-> 0,
           input |-> 0, provinces |-> <<>>, counts |-> <<>>, uneven |-> 0,
           bytes |-> <<>>, id |-> <<>>]
EmptyMap == [i \in {} |-> <<>>]
NoData == [page |-> 0, y |-> 0, placed |-> <<>>]
NoRun == [pc |-> "none"]

\* The documents before anything is built.
NoDocuments ==
    /\ kmBlocks = <<>> /\ verpBlocks = <<>>
    /\ totalKmCost = 0
    /\ kmHeader = <<>> /\ verpHeader = <<>>
    /\ kmFooter = <<>> /\ verpFooter = <<>>
    /\ kmData = NoData /\ verpData = NoData
    /\ outbox = <<>>
    /\ files = {}

\* customerDays[i] of the Go map: the nil slice for a key never written.
DaysOf(i) == IF i \in DOMAIN customerDays THEN customerDays[i] ELSE <<>>

\* The option as main passes it to isWorkday.
christmasWeekOff == ChristmasWeekOffEnabled(cfg.ChristmasWeekOff)

Init ==
    /\ \E r \in RunInputs : osArgs = r.osArgs /\ now = r.now
    /\ cfgFile \in ConfigInputs
    /\ pc = "start"
    /\ cfg = NoConfig
    /\ calendars = <<>>
    /\ year = 0 /\ month = 0 /\ numDays = 0 /\ day = 0
    /\ customerDays = EmptyMap
    /\ customerIdx = 0
    /\ lastDateString = <<>>
    /\ totalWorkdays = 0
    /\ filterLog = <<>>
    /\ test = NoTest
    /\ firstDateString = <<>>
    /\ NoDocuments
    /\ firstRun = NoRun

\* Variant of IsVersionFlag that knows --version only.
IsVersionFlag_LongOnly == Len(osArgs) > 1 /\ osArgs[2] = VersionLong

\* len(os.Args) > 1 && (os.Args[1] == "--version" || os.Args[1] == "-v")
IsVersionFlag == Len(osArgs) > 1 /\ (osArgs[2] = VersionLong \/ osArgs[2] = VersionShort)

\* main: the --version flag prints the version and returns.
MainVersion ==
    /\ pc = "start"
    /\ IsVersionFlag
    /\ pc' = "exit"
    /\ UNCHANGED <<osArgs, now, cfgFile, cfg, calendars, year, month, numDays, day,
                   customerDays, customerIdx, lastDateString, totalWorkdays,
                   filterLog, test, firstDateString, docVars, firstRun, files>>

\* main: load the configuration (panic on error), build the calendars,
\* parse the target month and set up the distribution.
MainLoadConfig ==
    /\ pc = "start"
    /\ ~IsVersionFlag
    /\ LET r == loadConfig(cfgFile)
       IN  IF r.err # "nil"
           THEN /\ pc' = "panic"
                /\ UNCHANGED <<cfg, calendars, year, month, numDays, day>>
           ELSE LET ym == parseMonthYear(osArgs, now)
                IN  /\ cfg' = r.cfg
                    /\ calendars' = getCustomerCalendars(r.cfg.Customers)
                    /\ year' = ym.year
                    /\ month' = ym.month
                    /\ numDays' = daysInMonth(ym.year, ym.month)
                    /\ day' = 1
                    /\ pc' = "loop"
    /\ UNCHANGED <<osArgs, now, cfgFile, customerDays, customerIdx, lastDateString,
                   totalWorkdays, filterLog, test, firstDateString, docVars, firstRun, files>>

\* Variant of NextCustomer that leaves the cursor where it is.
NextCustomer_Stuck(idx, n) == idx

\* The cursor after an assignment.
NextCustomer(idx, n) == (idx + 1) % n

\* Variant of append that puts the element in front.
append_Front(list, elem) == <<elem>> \o list

\* append(slice, elem) of Go.
append(list, elem) == Append(list, elem)

\* Variant of the loop iteration that offers a day the cursor customer
\* rejects to the following customers, in rotation order.
MainDistribute_Reoffer ==
    /\ pc = "loop"
    /\ day <= numDays
    /\ Len(cfg.Customers) > 0
    /\ LET n    == Len(cfg.Customers)
           date == timeDate(year, month, day)
           okFor(i) == isBusinessDay(calendars[i], date.year, date.month, date.day,
                                     christmasWeekOff)
           offs == {o \in 0..(n - 1) : okFor((customerIdx + o) % n)}
           ok   == offs # {}
           idx  == IF ok
                   THEN (customerIdx + (CHOOSE o \in offs : \A q \in offs : o <= q)) % n
                   ELSE customerIdx
           dateString == formatDate(year, month, day)
       IN  /\ filterLog' = Append(filterLog, [day |-> day, idx |-> idx, ok |-> ok])
           /\ IF ok
              THEN /\ customerDays' =
                         [k \in DOMAIN customerDays \cup {idx} |->
                             IF k = idx THEN append(DaysOf(idx), dateString)
                             ELSE customerDays[k]]
                   /\ firstDateString' = (IF totalWorkdays = 0 THEN dateString
                                           ELSE firstDateString)
                   /\ lastDateString' = dateString
                   /\ totalWorkdays' = totalWorkdays + 1
                   /\ customerIdx' = NextCustomer(idx, n)
              ELSE UNCHANGED <<customerDays, firstDateString, lastDateString,
                               totalWorkdays, customerIdx>>
           /\ day' = day + 1
           /\ pc' = "loop"
    /\ UNCHANGED <<osArgs, now, cfgFile, cfg, calendars, year, month, numDays, test,
                   docVars, firstRun, files>>

\* Variant of the loop iteration that moves the cursor on every day, whether
\* the day is assigned or not.
MainDistribute_AdvanceAlways ==
    /\ pc = "loop"
    /\ day <= numDays
    /\ Len(cfg.Customers) > 0
    /\ LET date == timeDate(year, month, day)
           ok   == isBusinessDay(calendars[customerIdx], date.year, date.month,
                                 date.day, christmasWeekOff)
           dateString == formatDate(year, month, day)
       IN  /\ filterLog' = Append(filterLog,
                                  [day |-> day, idx |-> customerIdx, ok |-> ok])
           /\ IF ok
              THEN /\ customerDays' =
                         [k \in DOMAIN customerDays \cup {customerIdx} |->
                             IF k = customerIdx
                             THEN append(DaysOf(customerIdx), dateString)
                             ELSE customerDays[k]]
                   /\ firstDateString' = (IF totalWorkdays = 0 THEN dateString
                                           ELSE firstDateString)
                   /\ lastDateString' = dateString
                   /\ totalWorkdays' = totalWorkdays + 1
              ELSE UNCHANGED <<customerDays, firstDateString, lastDateString,
                               totalWorkdays>>
           /\ customerIdx' = NextCustomer(customerIdx, Len(cfg.Customers))
           /\ day' = day + 1
           /\ pc' = "loop"
    /\ UNCHANGED <<osArgs, now, cfgFile, cfg, calendars, year, month, numDays, test,
                   docVars, firstRun, files>>

\* main: one iteration of the distribution loop.  The first assigned date
\* is kept next to the last one, for the period of the document headers.
MainDistribute ==
    /\ pc = "loop"
    /\ day <= numDays
    /\ IF Len(cfg.Customers) = 0
       THEN \* calendars[customerIdx] of an empty slice: index out of range
            /\ pc' = "panic"
            /\ UNCHANGED <<day, customerDays, customerIdx, firstDateString,
                           lastDateString, totalWorkdays, filterLog>>
       ELSE LET date == timeDate(year, month, day)
                ok   == isBusinessDay(calendars[customerIdx], date.year, date.month,
                                      date.day, christmasWeekOff)
                dateString == formatDate(year, month, day)
            IN  /\ filterLog' = Append(filterLog,
                                       [day |-> day, idx |-> customerIdx, ok |-> ok])
                /\ IF ok
                   THEN /\ customerDays' =
                              [k \in DOMAIN customerDays \cup {customerIdx} |->
                                  IF k = customerIdx
                                  THEN append(DaysOf(customerIdx), dateString)
                                  ELSE customerDays[k]]
                        /\ firstDateString' = (IF totalWorkdays = 0 THEN dateString
                                                ELSE firstDateString)
                        /\ lastDateString' = dateString
                        /\ totalWorkdays' = totalWorkdays + 1
                        /\ customerIdx' = NextCustomer(customerIdx, Len(cfg.Customers))
                   ELSE UNCHANGED <<customerDays, firstDateString, lastDateString,
                                    totalWorkdays, customerIdx>>
                /\ day' = day + 1
                /\ pc' = "loop"
    /\ UNCHANGED <<osArgs, now, cfgFile, cfg, calendars, year, month, numDays, test,
                   docVars, firstRun, files>>

RECURSIVE distributeCounts_AdvanceAlways(_, _, _, _, _, _, _)
\* Variant of distributeCounts that moves the cursor on every day, whether
\* the day is assigned or not.
distributeCounts_AdvanceAlways(y, m, cals, w, d, idx, counts) ==
    IF d > daysInMonth(y, m) THEN counts
    ELSE LET date == timeDate(y, m, d)
             n    == Cardinality(DOMAIN cals)
         IN  IF isBusinessDay(cals[idx], date.year, date.month, date.day, w)
             THEN distributeCounts_AdvanceAlways(y, m, cals, w, d + 1,
                                                 NextCustomer(idx, n),
                                                 [counts EXCEPT ![idx] = @ + 1])
             ELSE distributeCounts_AdvanceAlways(y, m, cals, w, d + 1,
                                                 NextCustomer(idx, n), counts)

RECURSIVE distributeCounts(_, _, _, _, _, _, _)
\* The distribution loop of main from day d on, for the calendars cals and
\* the cursor idx, reduced to len(customerDays[i]) of every customer i.
distributeCounts(y, m, cals, w, d, idx, counts) ==
    IF d > daysInMonth(y, m) THEN counts
    ELSE LET date == timeDate(y, m, d)
             n    == Cardinality(DOMAIN cals)
         IN  IF isBusinessDay(cals[idx], date.year, date.month, date.day, w)
             THEN distributeCounts(y, m, cals, w, d + 1, NextCustomer(idx, n),
                                   [counts EXCEPT ![idx] = @ + 1])
             ELSE distributeCounts(y, m, cals, w, d + 1, idx, counts)

RECURSIVE distributeWorkdaysFrom(_, _, _, _)
\* The loop of distributeWorkdays from index i (from 0) on.
distributeWorkdaysFrom(workdays, numCustomers, i, result) ==
    IF i >= Len(workdays) THEN result
    ELSE LET idx == i % numCustomers
         IN  distributeWorkdaysFrom(workdays, numCustomers, i + 1,
                 [k \in DOMAIN result \cup {idx} |->
                     IF k = idx THEN append(ListOf(result, idx), workdays[i + 1])
                     ELSE result[k]])

\* distributeWorkdays of the versions with one calendar for all customers:
\* the date at index i of the list goes to customer i mod numCustomers.
distributeWorkdays(workdays, numCustomers) ==
    distributeWorkdaysFrom(workdays, numCustomers, 0, EmptyMap)

\* main: the loop ends after the last day of the month.
MainDistributed ==
    /\ pc = "loop"
    /\ day > numDays
    /\ pc' = "blocks"
    /\ UNCHANGED <<osArgs, now, cfgFile, cfg, calendars, year, month, numDays, day,
                   customerDays, customerIdx, lastDateString, totalWorkdays,
                   filterLog, test, firstDateString, docVars, firstRun, files>>

\* The iteration order of `for i, customer := range cfg.Customers`.
rangeCustomers(customers) == [k \in 1..Len(customers) |-> k - 1]

\* Variant of kmCost that counts the way there and the way back.
kmCost_BothWays(numAssigned, distanceKm) == numAssigned * (2 * distanceKm) * kmRatePerKm

\* float64(len(days)) * float64(customer.Distance) * kmRatePerKm
kmCost(numAssigned, distanceKm) == numAssigned * distanceKm * kmRatePerKm

\* Variant of mealAllowance that pays the days after the first.
mealAllowance_FromSecondDay(numAssigned) == verpflegungRate * (numAssigned - 1)

\* verpflegungRate * float64(totalWorkdays)
mealAllowance(numAssigned) == verpflegungRate * numAssigned

\* The entry blocks of the dates of one customer appended to the blocks,
\* in the order of the list.
mapEntries(days, distanceKm, acc) ==
    [km   |-> acc.km \o [k \in 1..Len(days) |-> buildKilometerEntry(days[k], distanceKm)],
     verp |-> acc.verp \o [k \in 1..Len(days) |-> buildMealAllowanceEntry(days[k])],
     cost |-> acc.cost]

RECURSIVE buildBlocks_NoSkip(_, _, _, _)
\* Variant of buildBlocks without the `continue`: a customer without days
\* gets its header all the same.
buildBlocks_NoSkip(order, customers, daysOf, acc) ==
    IF order = <<>> THEN acc
    ELSE LET i        == Head(order)
             customer == customers[i + 1]
             days     == ListOf(daysOf, i)
             hdr      == [km   |-> Append(acc.km, buildCustomerHeader(customer)),
                          verp |-> Append(acc.verp, buildCustomerHeader(customer)),
                          cost |-> acc.cost]
             ent      == mapEntries(days, customer.Distance, hdr)
         IN  buildBlocks_NoSkip(Tail(order), customers, daysOf,
                                [ent EXCEPT !.cost = acc.cost
                                     + kmCost(Len(days), customer.Distance)])

RECURSIVE buildBlocks(_, _, _, _)
\* The loop over the customers in the given order: a customer without days
\* is skipped; otherwise the customer header, one entry per assigned date,
\* and the customer's mileage cost added to the total.
buildBlocks(order, customers, daysOf, acc) ==
    IF order = <<>> THEN acc
    ELSE LET i        == Head(order)
             customer == customers[i + 1]
             days     == ListOf(daysOf, i)
         IN  IF Len(days) = 0
             THEN buildBlocks(Tail(order), customers, daysOf, acc)
             ELSE LET hdr == [km   |-> Append(acc.km, buildCustomerHeader(customer)),
                              verp |-> Append(acc.verp, buildCustomerHeader(customer)),
                              cost |-> acc.cost]
                      ent == mapEntries(days, customer.Distance, hdr)
                  IN  buildBlocks(Tail(order), customers, daysOf,
                                  [ent EXCEPT !.cost = acc.cost
                                       + kmCost(Len(days), customer.Distance)])

\* The orders a loop over a Go map with the keys 0..n-1 can take.
MapOrders(n) == {o \in [1..n -> 0..(n - 1)] : \A a, b \in 1..n : a # b => o[a] # o[b]}

\* Variant of MainBuildBlocks that ranges over the map customerDays: the
\* order of the customers is then any order.
MainBuildBlocks_MapOrder ==
    /\ pc = "blocks"
    /\ \E order \in MapOrders(Len(cfg.Customers)) :
         LET r == buildBlocks(order, cfg.Customers, customerDays,
                              [km |-> <<>>, verp |-> <<>>, cost |-> 0])
         IN  /\ kmBlocks' = r.km
             /\ verpBlocks' = r.verp
             /\ totalKmCost' = r.cost
    /\ pc' = "headers"
    /\ UNCHANGED <<osArgs, now, cfgFile, cfg, calendars, year, month, numDays, day,
                   customerDays, customerIdx, lastDateString, totalWorkdays,
                   filterLog, test, firstDateString, kmHeader, verpHeader,
                   kmFooter, verpFooter, kmData, verpData, outbox, firstRun, files>>

\* main: the blocks of the two documents and the total mileage cost.
MainBuildBlocks ==
    /\ pc = "blocks"
    /\ LET r == buildBlocks(rangeCustomers(cfg.Customers), cfg.Customers, customerDays,
                            [km |-> <<>>, verp |-> <<>>, cost |-> 0])
       IN  /\ kmBlocks' = r.km
           /\ verpBlocks' = r.verp
           /\ totalKmCost' = r.cost
    /\ pc' = "headers"
    /\ UNCHANGED <<osArgs, now, cfgFile, cfg, calendars, year, month, numDays, day,
                   customerDays, customerIdx, lastDateString, totalWorkdays,
                   filterLog, test, firstDateString, kmHeader, verpHeader,
                   kmFooter, verpFooter, kmData, verpData, outbox, firstRun, files>>

\* Results of rand.Read(b) for the four bytes of a reference number.
RandomBytes == { <<0, 25, 26, 35>>, <<36, 255, 61, 200>> }

\* The period of the document headers: from the first to the last assigned date.
periodStart == firstDateString
periodEnd == lastDateString

\* main: the headers and footers of the two documents.
MainBuildHeaders ==
    /\ pc = "headers"
    /\ \E b1, b2 \in RandomBytes :
         /\ kmHeader' = buildDocumentHeader(year, month, lastDateString, periodStart,
                                            periodEnd, "Kilometergelderstattung", b1)
         /\ verpHeader' = buildDocumentHeader(year, month, lastDateString, periodStart,
                                              periodEnd, "Verpflegungsmehraufwand", b2)
    /\ kmFooter' = buildDocumentFooter(totalKmCost)
    /\ verpFooter' = buildDocumentFooter(mealAllowance(totalWorkdays))
    /\ pc' = "pdf_km"
    /\ UNCHANGED <<osArgs, now, cfgFile, cfg, calendars, year, month, numDays, day,
                   customerDays, customerIdx, lastDateString, totalWorkdays,
                   filterLog, test, firstDateString, kmBlocks, verpBlocks,
                   totalKmCost, kmData, verpData, outbox, firstRun, files>>

\* Variant of MainCreateKmPDF that goes on after an error of createPDF.
MainCreateKmPDF_IgnoreError ==
    /\ pc = "pdf_km"
    /\ \E err \in BOOLEAN :
         kmData' = IF err THEN NoData ELSE createPDF(kmHeader, kmBlocks, kmFooter)
    /\ pc' = "pdf_verp"
    /\ UNCHANGED <<osArgs, now, cfgFile, cfg, calendars, year, month, numDays, day,
                   customerDays, customerIdx, lastDateString, totalWorkdays,
                   filterLog, test, firstDateString, kmBlocks, verpBlocks,
                   totalKmCost, kmHeader, verpHeader, kmFooter, verpFooter,
                   verpData, outbox, firstRun, files>>

\* main: the mileage document is rendered; an error of createPDF is a panic.
MainCreateKmPDF ==
    /\ pc = "pdf_km"
    /\ \E err \in BOOLEAN :
         IF err
         THEN pc' = "panic" /\ UNCHANGED kmData
         ELSE /\ kmData' = createPDF(kmHeader, kmBlocks, kmFooter)
              /\ pc' = "pdf_verp"
    /\ UNCHANGED <<osArgs, now, cfgFile, cfg, calendars, year, month, numDays, day,
                   customerDays, customerIdx, lastDateString, totalWorkdays,
                   filterLog, test, firstDateString, kmBlocks, verpBlocks,
                   totalKmCost, kmHeader, verpHeader, kmFooter, verpFooter,
                   verpData, outbox, firstRun, files>>

\* main: the meal allowance document is rendered; an error is a panic.
MainCreateVerpPDF ==
    /\ pc = "pdf_verp"
    /\ \E err \in BOOLEAN :
         IF err
         THEN pc' = "panic" /\ UNCHANGED verpData
         ELSE /\ verpData' = createPDF(verpHeader, verpBlocks, verpFooter)
              /\ pc' = "email"
    /\ UNCHANGED <<osArgs, now, cfgFile, cfg, calendars, year, month, numDays, day,
                   customerDays, customerIdx, lastDateString, totalWorkdays,
                   filterLog, test, firstDateString, kmBlocks, verpBlocks,
                   totalKmCost, kmHeader, verpHeader, kmFooter, verpFooter,
                   kmData, outbox, firstRun, files>>

\* Attachment{Filename, Data}
Attachment(filename, data) == [Filename |-> filename, Data |-> data]

\* Variant of sendEmail that attaches the first document only.
sendEmail_FirstAttachment(config, subject, attachments) ==
    [From |-> config.Email.From, To |-> config.Email.To, Subject |-> subject,
     Body |-> "Dokumente anbei.<br>", Attachments |-> SubSeq(attachments, 1, 1)]

\* sendEmail: the message handed to the dialer.
sendEmail(config, subject, attachments) ==
    [From |-> config.Email.From, To |-> config.Email.To, Subject |-> subject,
     Body |-> "Dokumente anbei.<br>", Attachments |-> attachments]

\* main: both documents are sent in one email; an error of sendEmail is a
\* panic and nothing is delivered.
MainSendEmail ==
    /\ pc = "email"
    /\ LET kmFilename   == Pad2(month) \o <<"_">> \o Itoa(year)
                               \o <<"_Reisekosten_Kilometergelderstattung.pdf">>
           verpFilename == Pad2(month) \o <<"_">> \o Itoa(year)
                               \o <<"_Reisekosten_Verpflegungsmehraufwand.pdf">>
           subject      == <<"Reisekostenabrechnung ">> \o Pad2(month) \o <<"/">>
                               \o Itoa(year)
           msg          == sendEmail(cfg, subject,
                                     << Attachment(kmFilename, kmData),
                                        Attachment(verpFilename, verpData) >>)
       IN  \E err \in BOOLEAN :
              IF err
              THEN pc' = "panic" /\ UNCHANGED outbox
              ELSE outbox' = Append(outbox, msg) /\ pc' = "done"
    /\ UNCHANGED <<osArgs, now, cfgFile, cfg, calendars, year, month, numDays, day,
                   customerDays, customerIdx, lastDateString, totalWorkdays,
                   filterLog, test, firstDateString, kmBlocks, verpBlocks,
                   totalKmCost, kmHeader, verpHeader, kmFooter, verpFooter,
                   kmData, verpData, firstRun, files>>

Next ==
    \/ MainVersion \/ MainLoadConfig \/ MainDistribute \/ MainDistributed
    \/ MainBuildBlocks \/ MainBuildHeaders
    \/ MainCreateKmPDF \/ MainCreateVerpPDF \/ MainSendEmail

Spec == Init /\ [][Next]_vars

(***************************************************************************)
(* Direct calls of newBusinessCalendar and isWorkday, as the tests         *)
(* TestNewBusinessCalendar and TestIsWorkday make them: a calendar is      *)
(* built for a province code, then isWorkday is asked about a date.        *)
(***************************************************************************)
\* Province codes passed by the calls: the 16 of the table and codes not in it.
ProvinceInputs == DOMAIN provinceHolidays \cup {"", "bw", "by", "XX", "INVALID"}

TestInit ==
    /\ osArgs = <<Program>>
    /\ now = [year |-> FirstYear, month |-> 1]
    /\ cfgFile = [status |-> "unreadable", customers |-> <<>>, christmasWeekOff |-> "nil",
                  email |-> [From |-> "", To |-> ""]]
    /\ pc = "test"
    /\ cfg = NoConfig
    /\ calendars = <<>>
    /\ year = 0 /\ month = 0 /\ numDays = 0 /\ day = 0
    /\ customerDays = EmptyMap
    /\ customerIdx = 0
    /\ lastDateString = <<>>
    /\ totalWorkdays = 0
    /\ filterLog = <<>>
    /\ firstDateString = <<>>
    /\ NoDocuments
    /\ firstRun = NoRun
    /\ \E p \in ProvinceInputs : test = [NoTest EXCEPT !.step = "province", !.province = p]

mainVars == <<osArgs, now, cfgFile, pc, cfg, calendars, year, month, numDays, day,
              customerDays, customerIdx, lastDateString, totalWorkdays, filterLog,
              firstDateString, docVars, firstRun, files>>

\* cal := newBusinessCalendar(province)
TestNewBusinessCalendar ==
    /\ pc = "test"
    /\ test.step = "province"
    /\ test' = [test EXCEPT !.step = "calendar",
                            !.cal = newBusinessCalendar(test.province)]
    /\ UNCHANGED mainVars

\* got := isWorkday(cal, date, christmasWeekOff)
TestIsWorkday ==
    /\ pc = "test"
    /\ test.step = "calendar"
    /\ \E y \in Years, m \in Months, w \in BOOLEAN :
         \E d \in 1..daysInMonth(y, m) :
            test' = [test EXCEPT !.step = "done", !.year = y, !.month = m, !.day = d,
                                 !.christmasWeekOff = w,
                                 !.got = isBusinessDay(test.cal, y, m, d, w)]
    /\ UNCHANGED mainVars

TestNext == TestNewBusinessCalendar \/ TestIsWorkday

SpecFilter == TestInit /\ [][TestNext]_vars

(***************************************************************************)
(* Direct calls of daysInMonth, as the test TestDaysInMonth makes them.    *)
(***************************************************************************)
\* Years the calls are made for: the years of the runs, the years around
\* the turn of the century and the century years.
DaysYears == Years \cup (1996..2004) \cup {1900, 2100, 2200, 2300, 2400}

TestDaysInit ==
    /\ osArgs = <<Program>>
    /\ now = [year |-> FirstYear, month |-> 1]
    /\ cfgFile = [status |-> "unreadable", customers |-> <<>>, christmasWeekOff |-> "nil",
                  email |-> [From |-> "", To |-> ""]]
    /\ pc = "test"
    /\ cfg = NoConfig
    /\ calendars = <<>>
    /\ year = 0 /\ month = 0 /\ numDays = 0 /\ day = 0
    /\ customerDays = EmptyMap
    /\ customerIdx = 0
    /\ lastDateString = <<>>
    /\ totalWorkdays = 0
    /\ filterLog = <<>>
    /\ firstDateString = <<>>
    /\ NoDocuments
    /\ firstRun = NoRun
    /\ \E y \in DaysYears, m \in Months :
          test = [NoTest EXCEPT !.step = "month", !.year = y, !.month = m]

\* got := daysInMonth(year, month)
TestDaysInMonth ==
    /\ pc = "test"
    /\ test.step = "month"
    /\ test' = [test EXCEPT !.step = "days", !.days = daysInMonth(test.year, test.month)]
    /\ UNCHANGED mainVars

SpecDays == TestDaysInit /\ [][TestDaysInMonth]_vars

(***************************************************************************)
(* Two runs of the program, one after the other, with the same command     *)
(* line and the same configuration file.  The results of the first run are *)
(* kept in firstRun while the second run computes its own.                 *)
(***************************************************************************)
\* Command lines of the runs that are repeated, with the date of the run.
RerunInputs ==
    { [osArgs |-> <<Program, MonthArg(FirstYear, m, FALSE)>>,
       now |-> [year |-> LastYear, month |-> 6]] : m \in Months }
    \cup { [osArgs |-> <<Program>>, now |-> [year |-> LastYear, month |-> 6]] }
    \cup { [osArgs |-> <<Program, VersionLong>>,
            now |-> [year |-> LastYear, month |-> 6]] }

\* Dates of the second run.
RerunNows == { [year |-> LastYear, month |-> 6], [year |-> LastYear, month |-> 7] }

RerunInit ==
    /\ \E r \in RerunInputs : osArgs = r.osArgs /\ now = r.now
    /\ cfgFile \in ConfigInputs
    /\ pc = "start"
    /\ cfg = NoConfig
    /\ calendars = <<>>
    /\ year = 0 /\ month = 0 /\ numDays = 0 /\ day = 0
    /\ customerDays = EmptyMap
    /\ customerIdx = 0
    /\ lastDateString = <<>>
    /\ totalWorkdays = 0
    /\ filterLog = <<>>
    /\ test = NoTest
    /\ firstDateString = <<>>
    /\ NoDocuments
    /\ firstRun = NoRun

\* The program is started a second time after a run that ended normally:
\* same command line, same configuration file, on a date that gives the same
\* target month.  Every variable of main starts afresh; the emails delivered
\* by the first run stay delivered.
MainRunAgain ==
    /\ pc = "done"
    /\ firstRun = NoRun
    /\ firstRun' = [pc |-> pc, now |-> now, customerDays |-> customerDays,
                    totalWorkdays |-> totalWorkdays,
                    firstDateString |-> firstDateString,
                    lastDateString |-> lastDateString,
                    kmBlocks |-> kmBlocks, verpBlocks |-> verpBlocks,
                    totalKmCost |-> totalKmCost,
                    kmHeader |-> kmHeader, verpHeader |-> verpHeader,
                    kmFooter |-> kmFooter, verpFooter |-> verpFooter,
                    kmData |-> kmData, verpData |-> verpData]
    /\ \E today \in RerunNows :
          /\ parseMonthYear(osArgs, today) = [year |-> year, month |-> month]
          /\ now' = today
    /\ pc' = "start"
    /\ cfg' = NoConfig
    /\ calendars' = <<>>
    /\ year' = 0 /\ month' = 0 /\ numDays' = 0 /\ day' = 0
    /\ customerDays' = EmptyMap
    /\ customerIdx' = 0
    /\ lastDateString' = <<>>
    /\ totalWorkdays' = 0
    /\ filterLog' = <<>>
    /\ firstDateString' = <<>>
    /\ kmBlocks' = <<>> /\ verpBlocks' = <<>>
    /\ totalKmCost' = 0
    /\ kmHeader' = <<>> /\ verpHeader' = <<>>
    /\ kmFooter' = <<>> /\ verpFooter' = <<>>
    /\ kmData' = NoData /\ verpData' = NoData
    /\ UNCHANGED <<osArgs, cfgFile, test, outbox, files>>

RerunNext == Next \/ MainRunAgain

SpecRerun == RerunInit /\ [][RerunNext]_vars

(***************************************************************************)
(* The distribution run over a table of months and customer lists, one     *)
(* entry after the other: test.input is the number of entries done,        *)
(* test.counts the counts of the latest entry and test.uneven the number   *)
(* of entries whose counts were not the floor/ceil split of their sum.     *)
(***************************************************************************)
\* Province codes of the customers of the table: regions whose holidays
\* differ from each other's.
Regions == <<"BW", "SN", "BE">>

RECURSIVE Pow(_, _)
Pow(b, e) == IF e = 0 THEN 1 ELSE b * Pow(b, e - 1)

RECURSIVE NumLists(_)
\* The number of lists of 1..n province codes.
NumLists(n) == IF n = 0 THEN 0 ELSE NumLists(n - 1) + Pow(Len(Regions), n)

RECURSIVE ListAt(_, _)
\* The l-th list of province codes with n or more customers.
ListAt(l, n) ==
    IF l < Pow(Len(Regions), n)
    THEN [i \in 1..n |-> Regions[((l \div Pow(Len(Regions), i - 1)) % Len(Regions)) + 1]]
    ELSE ListAt(l - Pow(Len(Regions), n), n + 1)

\* Entries of the table: every list, for every month of every year, with
\* the option off and on.
NumInputs == NumLists(MaxCustomers) * NumYears * 12 * 2

InputAt(k) ==
    [christmasWeekOff |-> (k % 2 = 1),
     month     |-> ((k \div 2) % 12) + 1,
     year      |-> FirstYear + ((k \div 24) % NumYears),
     provinces |-> ListAt(k \div (24 * NumYears), 1)]

\* The counts of the customers 0..n-1 differ by more than one.
Uneven(counts, n) == \E a, b \in 0..(n - 1) : counts[a] > counts[b] + 1

TestCountsInit ==
    /\ osArgs = <<Program>>
    /\ now = [year |-> FirstYear, month |-> 1]
    /\ cfgFile = [status |-> "unreadable", customers |-> <<>>, christmasWeekOff |-> "nil",
                  email |-> [From |-> "", To |-> ""]]
    /\ pc = "test"
    /\ cfg = NoConfig
    /\ calendars = <<>>
    /\ year = 0 /\ month = 0 /\ numDays = 0 /\ day = 0
    /\ customerDays = EmptyMap
    /\ customerIdx = 0
    /\ lastDateString = <<>>
    /\ totalWorkdays = 0
    /\ filterLog = <<>>
    /\ firstDateString = <<>>
    /\ NoDocuments
    /\ firstRun = NoRun
    /\ test = [NoTest EXCEPT !.step = "table"]

\* The next entry of the table is distributed: calendars by province, the
\* cursor at the first customer, every list empty, days 1 to the last.
TestDistribute ==
    /\ pc = "test"
    /\ test.step = "table"
    /\ test.input < NumInputs
    /\ LET in     == InputAt(test.input)
           n      == Len(in.provinces)
           cals   == [i \in 0..(n - 1) |-> newBusinessCalendar(in.provinces[i + 1])]
           counts == distributeCounts(in.year, in.month, cals, in.christmasWeekOff,
                                      1, 0, [i \in 0..(n - 1) |-> 0])
       IN  test' = [test EXCEPT !.input = test.input + 1,
                                !.year = in.year, !.month = in.month,
                                !.christmasWeekOff = in.christmasWeekOff,
                                !.provinces = in.provinces,
                                !.counts = counts,
                                !.uneven = test.uneven
                                           + (IF Uneven(counts, n) THEN 1 ELSE 0)]
    /\ UNCHANGED mainVars

SpecCounts == TestCountsInit /\ [][TestDistribute]_vars

(***************************************************************************)
(* Runs of main with longer customer lists: a few customers with several   *)
(* days each, and more customers than a month has business days, so that   *)
(* the last customers of the list are assigned no day.                     *)
(***************************************************************************)
\* More customers than any month has business days.
ManyCustomers == 24
\* A handful of customers.
SomeCustomers == 5

\* The numbers of customers of the configurations.
CustomerCounts == {1, 2, SomeCustomers, ManyCustomers}

\* Distances of the customers, one way, in km.
Distances == <<42, 120, 7>>

\* The i-th customer (from 1) of a configuration.
CustomerAt(i) ==
    [ID       |-> IF i < 10 THEN Digits[i + 1]
                  ELSE Digits[(i \div 10) + 1] \o Digits[(i % 10) + 1],
     Name     |-> "Kunde",
     From     |-> "Stuttgart",
     To       |-> "Karlsruhe",
     Reason   |-> "Projekt",
     Province |-> Regions[((i - 1) % Len(Regions)) + 1],
     Distance |-> Distances[((i - 1) % Len(Distances)) + 1]]

ManyConfigInputs ==
    { [status |-> "ok", customers |-> [i \in 1..n |-> CustomerAt(i)],
       christmasWeekOff |-> w, email |-> EmailInput] :
          n \in CustomerCounts, w \in {"nil", "false"} }
    \cup { [status |-> st, customers |-> <<>>, christmasWeekOff |-> "nil",
             email |-> EmailInput] :
          st \in {"unreadable", "malformed"} }

\* Arguments at the edges of monthArgRegex: the first and the last year it
\* accepts, and arguments it does not match.
EdgeArgs == { <<"1", "/", "2", "0", "0", "0">>,
              <<"1", "2", "/", "2", "0", "9", "9">>,
              <<"0", "/", "2", "0", "2", "6">>,
              <<"0", "0", "/", "2", "0", "2", "6">>,
              <<"1", "/", "2", "1", "0", "0">>,
              <<"1", "/", "2", "0", "2">>,
              <<"0", "1", "2", "/", "2", "0", "2", "6">>,
              <<"1", "/", "2", "0", "2", "6", "/">> }

ManyRunInputs ==
    { [osArgs |-> <<Program, MonthArg(y, m, FALSE)>>,
       now |-> [year |-> LastYear, month |-> 6]] : y \in Years, m \in Months }
    \cup { [osArgs |-> <<Program, MonthArg(FirstYear, m, TRUE)>>,
            now |-> [year |-> LastYear, month |-> 6]] : m \in 1..9 }
    \cup { [osArgs |-> <<Program>>,
            now |-> [year |-> LastYear, month |-> m]] : m \in Months }
    \cup { [osArgs |-> <<Program, a>>,
            now |-> [year |-> LastYear, month |-> 2]] : a \in BadArgs \cup EdgeArgs }
    \cup { [osArgs |-> <<Program, a>>,
            now |-> [year |-> LastYear, month |-> 6]] : a \in {VersionLong, VersionShort} }

ManyInit ==
    /\ \E r \in ManyRunInputs : osArgs = r.osArgs /\ now = r.now
    /\ cfgFile \in ManyConfigInputs
    /\ pc = "start"
    /\ cfg = NoConfig
    /\ calendars = <<>>
    /\ year = 0 /\ month = 0 /\ numDays = 0 /\ day = 0
    /\ customerDays = EmptyMap
    /\ customerIdx = 0
    /\ lastDateString = <<>>
    /\ totalWorkdays = 0
    /\ filterLog = <<>>
    /\ test = NoTest
    /\ firstDateString = <<>>
    /\ NoDocuments
    /\ firstRun = NoRun

SpecMany == ManyInit /\ [][Next]_vars

(***************************************************************************)
(* The end of main in the versions that write the documents to files       *)
(* (src/main.go): each createPDF writes a file, sendEmail attaches the     *)
(* files by name, and the files are removed after the email is sent.       *)
(* The steps up to the headers and footers are those of the runs above.    *)
(***************************************************************************)
kmFilename == Pad2(month) \o <<"_">> \o Itoa(year)
                  \o <<"_Reisekosten_Kilometergelderstattung.pdf">>
verpFilename == Pad2(month) \o <<"_">> \o Itoa(year)
                    \o <<"_Reisekosten_Verpflegungsmehraufwand.pdf">>

\* createPDF(kmHeader, kmBlocks, kmFooter, kmFilename): the file is written;
\* on an error of OutputFileAndClose createPDF panics, and the file of the
\* failed call is taken as not written.
MainCreateKmFile ==
    /\ pc = "pdf_km"
    /\ \E err \in BOOLEAN :
         IF err
         THEN pc' = "panic" /\ UNCHANGED <<kmData, files>>
         ELSE /\ kmData' = createPDF(kmHeader, kmBlocks, kmFooter)
              /\ files' = files \cup {kmFilename}
              /\ pc' = "pdf_verp"
    /\ UNCHANGED <<osArgs, now, cfgFile, cfg, calendars, year, month, numDays, day,
                   customerDays, customerIdx, lastDateString, totalWorkdays,
                   filterLog, test, firstDateString, kmBlocks, verpBlocks,
                   totalKmCost, kmHeader, verpHeader, kmFooter, verpFooter,
                   verpData, outbox, firstRun>>

\* createPDF(verpHeader, verpBlocks, verpFooter, verpFilename)
MainCreateVerpFile ==
    /\ pc = "pdf_verp"
    /\ \E err \in BOOLEAN :
         IF err
         THEN pc' = "panic" /\ UNCHANGED <<verpData, files>>
         ELSE /\ verpData' = createPDF(verpHeader, verpBlocks, verpFooter)
              /\ files' = files \cup {verpFilename}
              /\ pc' = "email"
    /\ UNCHANGED <<osArgs, now, cfgFile, cfg, calendars, year, month, numDays, day,
                   customerDays, customerIdx, lastDateString, totalWorkdays,
                   filterLog, test, firstDateString, kmBlocks, verpBlocks,
                   totalKmCost, kmHeader, verpHeader, kmFooter, verpFooter,
                   kmData, outbox, firstRun>>

\* sendEmail(cfg, subject, kmFilename, verpFilename): an error is a panic,
\* before the files are removed.
MainSendFiles ==
    /\ pc = "email"
    /\ LET subject == <<"Reisekostenabrechnung ">> \o Pad2(month) \o <<"/">>
                          \o Itoa(year)
           msg     == sendEmail(cfg, subject,
                                << Attachment(kmFilename, kmData),
                                   Attachment(verpFilename, verpData) >>)
       IN  \E err \in BOOLEAN :
              IF err
              THEN pc' = "panic" /\ UNCHANGED outbox
              ELSE outbox' = Append(outbox, msg) /\ pc' = "remove"
    /\ UNCHANGED <<osArgs, now, cfgFile, cfg, calendars, year, month, numDays, day,
                   customerDays, customerIdx, lastDateString, totalWorkdays,
                   filterLog, test, firstDateString, kmBlocks, verpBlocks,
                   totalKmCost, kmHeader, verpHeader, kmFooter, verpFooter,
                   kmData, verpData, firstRun, files>>

\* os.Remove(kmFilename); os.Remove(verpFilename)
MainRemoveFiles ==
    /\ pc = "remove"
    /\ files' = files \ {kmFilename, verpFilename}
    /\ pc' = "done"
    /\ UNCHANGED <<osArgs, now, cfgFile, cfg, calendars, year, month, numDays, day,
                   customerDays, customerIdx, lastDateString, totalWorkdays,
                   filterLog, test, firstDateString, docVars, firstRun>>

FilesNext ==
    \/ MainVersion \/ MainLoadConfig \/ MainDistribute \/ MainDistributed
    \/ MainBuildBlocks \/ MainBuildHeaders
    \/ MainCreateKmFile \/ MainCreateVerpFile \/ MainSendFiles \/ MainRemoveFiles

SpecFiles == RerunInit /\ [][FilesNext]_vars

(***************************************************************************)
(* Direct calls of documentID, as the tests make them: the year, the month *)
(* and the four bytes rand.Read delivers are the inputs.                   *)
(***************************************************************************)
\* The years of the calls: those of the runs, the limits of the month
\* argument, and years of three and of five digits.
IDYears == Years \cup {2000, 2099, 999, 10000}

\* The bytes of the calls: every value of a byte at every position, and the
\* bytes of the runs.
IDBytes ==
    {[i \in 1..4 |-> IF i = p THEN v ELSE 0] : p \in 1..4, v \in 0..255}
        \cup RandomBytes

TestIDInit ==
    /\ osArgs = <<Program>>
    /\ now = [year |-> FirstYear, month |-> 1]
    /\ cfgFile = [status |-> "unreadable", customers |-> <<>>, christmasWeekOff |-> "nil",
                  email |-> [From |-> "", To |-> ""]]
    /\ pc = "test"
    /\ cfg = NoConfig
    /\ calendars = <<>>
    /\ year = 0 /\ month = 0 /\ numDays = 0 /\ day = 0
    /\ customerDays = EmptyMap
    /\ customerIdx = 0
    /\ lastDateString = <<>>
    /\ totalWorkdays = 0
    /\ filterLog = <<>>
    /\ firstDateString = <<>>
    /\ NoDocuments
    /\ firstRun = NoRun
    /\ \E y \in IDYears, m \in Months, b \in IDBytes :
          test = [NoTest EXCEPT !.step = "call", !.year = y, !.month = m,
                                !.bytes = b]

\* id := documentID(year, month)
TestDocumentID ==
    /\ pc = "test"
    /\ test.step = "call"
    /\ test' = [test EXCEPT !.step = "id",
                            !.id = documentID(test.year, test.month, test.bytes)]
    /\ UNCHANGED mainVars

SpecID == TestIDInit /\ [][TestDocumentID]_vars

(***************************************************************************)
(* Vocabulary of the properties.                                           *)
(***************************************************************************)
NumCustomers == Len(cfg.Customers)
CustomerIdxs == 0..(NumCustomers - 1)

\* A date string DD.MM.YYYY read back.
ParseDate(s) == [day   |-> Atoi(SubSeq(s, 1, 2)),
                 month |-> Atoi(SubSeq(s, 4, 5)),
                 year  |-> Atoi(SubSeq(s, 7, Len(s)))]

\* The holidays of a region: those of the province code, and those of
\* Baden-Wuerttemberg when the code is not one of the 16.  A customer's own
\* region is that of its province code.
RegionHolidays(p) ==
    IF p \in DOMAIN provinceHolidays THEN provinceHolidays[p] ELSE HolidaysBW

OwnHolidays(i) == RegionHolidays(cfg.Customers[i + 1].Province)

\* The date is an official holiday of customer i's region.
OwnHoliday(i, y, m, d) == \E h \in OwnHolidays(i) : HolidayOn(h, y, m, d)

SatOrSun(y, m, d) == Weekday(y, m, d) = 6 \/ Weekday(y, m, d) = 0

ClosureDate(m, d) == m = 12 /\ d \in {24, 27, 28, 29, 30, 31}

\* Whether day d of the target month is a business day for customer i:
\* weekday, no holiday of the customer's region, and outside the closure
\* window when the option is on.
BusinessDayFor(i, d) ==
    /\ ~SatOrSun(year, month, d)
    /\ ~OwnHoliday(i, year, month, d)
    /\ ~(christmasWeekOff /\ ClosureDate(month, d))

\* All date strings assigned so far, and those of one customer.
AssignedTo(i) == {DaysOf(i)[k] : k \in 1..Len(DaysOf(i))}

RECURSIVE SumLen(_)
\* Sum of the lengths of the lists of the customers 0..n-1.
SumLen(n) == IF n = 0 THEN 0 ELSE SumLen(n - 1) + Len(DaysOf(n - 1))

Accepted == {k \in 1..Len(filterLog) : filterLog[k].ok}

(***************************************************************************)
(* C1: in the distribution loop a day is tested once, against the calendar *)
(* of the customer under the cursor only.  If it is a business day for     *)
(* that customer, its date is appended to that customer's list, no other   *)
(* list changes and the cursor moves to the next customer, wrapping after  *)
(* the last.  If it is not, no list changes at all and the cursor stays.   *)
(***************************************************************************)
C1_StepOutcome ==
    LET c  == customerIdx
        ok == BusinessDayFor(c, day)
        ds == formatDate(year, month, day)
    IN  /\ filterLog' = Append(filterLog, [day |-> day, idx |-> c, ok |-> ok])
        /\ IF ok
           THEN /\ ListOf(customerDays', c) = Append(ListOf(customerDays, c), ds)
                /\ \A k \in CustomerIdxs \ {c} :
                      ListOf(customerDays', k) = ListOf(customerDays, k)
                /\ customerIdx' = (IF c = NumCustomers - 1 THEN 0 ELSE c + 1)
           ELSE /\ \A k \in CustomerIdxs :
                      ListOf(customerDays', k) = ListOf(customerDays, k)
                /\ customerIdx' = c

C1_CursorOnlyRotation ==
    [][(pc = "loop" /\ day <= numDays) => C1_StepOutcome]_vars

\* A month is distributed in which a day was rejected for the cursor
\* customer, left unassigned although another customer's calendar accepts
\* it, and in which the cursor wrapped from the last customer to the first.
C1_Witness ==
    /\ pc = "blocks"
    /\ NumCustomers >= 2
    /\ \E k \in 1..Len(filterLog) :
         /\ ~filterLog[k].ok
         /\ \E j \in CustomerIdxs \ {filterLog[k].idx} : BusinessDayFor(j, filterLog[k].day)
         /\ \A j \in CustomerIdxs :
               formatDate(year, month, filterLog[k].day) \notin AssignedTo(j)
    /\ \E k \in 1..(Len(filterLog) - 1) :
         /\ filterLog[k].ok /\ filterLog[k].idx = NumCustomers - 1
         /\ filterLog[k + 1].idx = 0

(***************************************************************************)
(* C2: after the distribution the reported total equals the sum of the     *)
(* lengths of the customers' lists and the number of days the filter       *)
(* accepted during the rotation; no date is in two customers' lists and    *)
(* none is twice in one list.                                              *)
(***************************************************************************)
C2_TotalAndNoDuplicates ==
    pc = "blocks" =>
        /\ totalWorkdays = SumLen(NumCustomers)
        /\ totalWorkdays = Cardinality(Accepted)
        /\ DOMAIN customerDays \subseteq CustomerIdxs
        /\ \A i, j \in CustomerIdxs : i # j => AssignedTo(i) \cap AssignedTo(j) = {}
        /\ \A i \in CustomerIdxs : Cardinality(AssignedTo(i)) = Len(DaysOf(i))

\* A month distributed over two customers, each with several days, with
\* rejected days in between.
C2_Witness ==
    /\ pc = "blocks"
    /\ NumCustomers = 2
    /\ Len(DaysOf(0)) >= 2 /\ Len(DaysOf(1)) >= 2
    /\ totalWorkdays < numDays

(***************************************************************************)
(* C3: when the customers' calendars agree on every day of the month, each *)
(* of the N customers gets floor(D/N) or ceil(D/N) of the D qualifying     *)
(* days, and the first D mod N customers get the extra day.                *)
(***************************************************************************)
CalendarsAgree ==
    \A d \in 1..numDays :
       LET first == BusinessDayFor(0, d)
       IN  \A i \in CustomerIdxs \ {0} : BusinessDayFor(i, d) = first

Qualifying == {d \in 1..numDays : BusinessDayFor(0, d)}

C3_RoundRobinFairness ==
    (pc = "blocks" /\ CalendarsAgree) =>
        LET D == Cardinality(Qualifying)
            N == NumCustomers
        IN  \A i \in CustomerIdxs :
               Len(DaysOf(i)) = (D \div N) + (IF i < D % N THEN 1 ELSE 0)

\* Two customers with different province codes whose calendars agree in
\* the month, and an odd number of qualifying days: the first gets one more.
C3_Witness ==
    /\ pc = "blocks"
    /\ NumCustomers = 2
    /\ cfg.Customers[1].Province # cfg.Customers[2].Province
    /\ CalendarsAgree
    /\ Cardinality(Qualifying) % 2 = 1
    /\ Len(DaysOf(0)) = Len(DaysOf(1)) + 1

\* The entries of customer i's list that a state is asked about: all of
\* them once the distribution is over, the latest one while it runs (each
\* entry is the latest one right after it is assigned).
Entries(i) == IF pc = "blocks" THEN 1..Len(DaysOf(i))
              ELSE {Len(DaysOf(i))} \ {0}

\* The dates of those entries, read back from the date strings.
EntryDates(i) == {ParseDate(DaysOf(i)[k]) : k \in Entries(i)}

DayNumberOf(ds) == LET dt == ParseDate(ds) IN DaysFromCivil(dt.year, dt.month, dt.day)

\* The loop is about to test the day `day`.
AtDay == pc = "loop" /\ day <= numDays

C5_OptionOnExcludesClosureDates ==
    /\ (AtDay /\ ClosureDate(month, day)) =>
          \A p \in ProvinceInputs :
             ~isBusinessDay(newBusinessCalendar(p), year, month, day, TRUE)
    /\ christmasWeekOff =>
          /\ \A i \in CustomerIdxs : \A dt \in EntryDates(i) :
                ~ClosureDate(dt.month, dt.day)
          /\ \A k \in 1..Len(filterLog) :
                ClosureDate(month, filterLog[k].day) => ~filterLog[k].ok

\* A December distributed with the option on in which the 24th and the
\* 27th are weekdays and no holiday of the tested customer, and rejected.
C5_Witness ==
    /\ pc = "blocks"
    /\ christmasWeekOff
    /\ month = 12
    /\ totalWorkdays > 0
    /\ \A dd \in {24, 27} :
          \E k \in 1..Len(filterLog) :
             /\ filterLog[k].day = dd
             /\ ~SatOrSun(year, month, dd)
             /\ ~OwnHoliday(filterLog[k].idx, year, month, dd)
             /\ ~filterLog[k].ok

(***************************************************************************)
(* C6: a holiday of a customer's own region is never a business day for    *)
(* that customer, with the option on or off; a weekday outside the closure *)
(* window that is a holiday in one customer's region and not in another's  *)
(* is rejected for the first and accepted for the second.                  *)
(***************************************************************************)
C6_OwnRegionHolidays ==
    /\ \A i \in CustomerIdxs : \A dt \in EntryDates(i) :
          ~OwnHoliday(i, dt.year, dt.month, dt.day)
    /\ AtDay =>
          \A i \in CustomerIdxs :
             OwnHoliday(i, year, month, day) =>
                /\ \A w \in BOOLEAN : ~isBusinessDay(calendars[i], year, month, day, w)
                /\ \A j \in CustomerIdxs :
                      ( /\ ~SatOrSun(year, month, day)
                        /\ ~ClosureDate(month, day)
                        /\ ~OwnHoliday(j, year, month, day) )
                      => \A w \in BOOLEAN :
                            isBusinessDay(calendars[j], year, month, day, w)

\* A distributed month in which a customer was assigned a date that is a
\* holiday in the other customer's region, and a weekday was rejected for
\* a customer because it is a holiday of that customer's region alone.
C6_Witness ==
    /\ pc = "blocks"
    /\ NumCustomers = 2
    /\ \E i, j \in CustomerIdxs :
         /\ i # j
         /\ \E dt \in EntryDates(j) : OwnHoliday(i, dt.year, dt.month, dt.day)
    /\ \E k \in 1..Len(filterLog) :
         /\ ~filterLog[k].ok
         /\ ~SatOrSun(year, month, filterLog[k].day)
         /\ OwnHoliday(filterLog[k].idx, year, month, filterLog[k].day)
         /\ \E j \in CustomerIdxs : ~OwnHoliday(j, year, month, filterLog[k].day)

(***************************************************************************)
(* C7: isWorkday rejects every Saturday and Sunday, for every province     *)
(* code and with the option on or off, and no Saturday or Sunday is in     *)
(* any customer's list.                                                    *)
(***************************************************************************)
C7_NoWeekendDays ==
    /\ (AtDay /\ SatOrSun(year, month, day)) =>
          \A p \in ProvinceInputs : \A w \in BOOLEAN :
             ~isBusinessDay(newBusinessCalendar(p), year, month, day, w)
    /\ \A i \in CustomerIdxs : \A dt \in EntryDates(i) :
          ~SatOrSun(dt.year, dt.month, dt.day)
    /\ \A k \in 1..Len(filterLog) :
          SatOrSun(year, month, filterLog[k].day) => ~filterLog[k].ok

\* A month distributed with the option off in which a Saturday and a
\* Sunday that are no holidays were tested and rejected.
C7_Witness ==
    /\ pc = "blocks"
    /\ ~christmasWeekOff
    /\ totalWorkdays > 0
    /\ \A wd \in {0, 6} :
          \E k \in 1..Len(filterLog) :
             /\ Weekday(year, month, filterLog[k].day) = wd
             /\ ~OwnHoliday(filterLog[k].idx, year, month, filterLog[k].day)
             /\ ~filterLog[k].ok

(***************************************************************************)
(* C8: the dates of each customer's list are in strictly ascending         *)
(* chronological order: each date is later than the one before it.         *)
(***************************************************************************)
C8_ChronologicalLists ==
    \A i \in CustomerIdxs :
       \A b \in Entries(i) :
          b > 1 => DayNumberOf(DaysOf(i)[b - 1]) < DayNumberOf(DaysOf(i)[b])

\* A month distributed over two customers whose calendars differ in it,
\* each with at least three dates.
C8_Witness ==
    /\ pc = "blocks"
    /\ NumCustomers = 2
    /\ ~CalendarsAgree
    /\ Len(DaysOf(0)) >= 3 /\ Len(DaysOf(1)) >= 3

(***************************************************************************)
(* C9: newBusinessCalendar always returns a calendar; for a code that is   *)
(* not one of the 16 of the table (the empty string and lower-case codes   *)
(* included) it carries the holidays of Baden-Wuerttemberg, for a code of  *)
(* the table the holidays of that province.                                *)
(***************************************************************************)
C9_CalendarNeverFails ==
    /\ Cardinality(DOMAIN provinceHolidays) = 16
    /\ test.step \in {"calendar", "done"} =>
          /\ test.cal # NoCalendar
          /\ test.province \in DOMAIN provinceHolidays =>
                test.cal.holidays = provinceHolidays[test.province]
          /\ test.province \notin DOMAIN provinceHolidays =>
                test.cal.holidays = HolidaysBW

\* The calendar built for "by": the holidays of Baden-Wuerttemberg, which
\* are not those of Bavaria.
C9_Witness ==
    /\ test.step = "calendar"
    /\ test.province = "by"
    /\ test.cal.holidays = HolidaysBW
    /\ test.cal.holidays # provinceHolidays["BY"]

(***************************************************************************)
(* C10: an unreadable or malformed configuration and one without customers *)
(* make loadConfig return an error; the run then panics before the         *)
(* distribution, and the loop is never entered with zero customers.        *)
(***************************************************************************)
BadConfig == cfgFile.status # "ok" \/ Len(cfgFile.customers) = 0

C10_NoDistributionWithoutCustomers ==
    /\ BadConfig =>
          /\ loadConfig(cfgFile).err # "nil"
          /\ pc \in {"start", "panic", "exit"}
          /\ pc = "exit" => IsVersionFlag
          /\ filterLog = <<>> /\ customerDays = EmptyMap /\ totalWorkdays = 0
    /\ pc \in {"loop", "blocks"} => NumCustomers >= 1

\* The run has panicked on a readable configuration that lists no customer.
C10_Witness ==
    /\ pc = "panic"
    /\ cfgFile.status = "ok"
    /\ Len(cfgFile.customers) = 0
    /\ filterLog = <<>>

(***************************************************************************)
(* Vocabulary of the properties about the documents.                       *)
(***************************************************************************)
\* The blocks, headers and footers are built.
DocumentsBuilt == pc \in {"pdf_km", "pdf_verp", "email", "done"}

\* The amount a footer shows, in cents.
FooterAmount(footer) == Atoi(SelectSeq(footer, IsDigit))

RECURSIVE SumMileage(_)
\* Sum over the customers 0..n-1 of assigned days x distance x 30 cents.
SumMileage(n) ==
    IF n = 0 THEN 0
    ELSE SumMileage(n - 1) + Cardinality(AssignedTo(n - 1)) * cfg.Customers[n].Distance * 30

\* The customers have the distances da and db (one way, in km) and hold na
\* and nb days.
TwoCustomers(da, na, db, nb) ==
    /\ NumCustomers = 2
    /\ cfg.Customers[1].Distance = da /\ Len(DaysOf(0)) = na
    /\ cfg.Customers[2].Distance = db /\ Len(DaysOf(1)) = nb

(***************************************************************************)
(* C11: the total mileage cost is the sum over the customers of assigned   *)
(* days x one-way distance x 0.30 EUR, and the mileage footer shows it;    *)
(* two customers with 42 km and 120 km and 10 days each cost 126.00 and    *)
(* 360.00, in total 486.00.                                                *)
(***************************************************************************)
C11_MileageCost ==
    DocumentsBuilt =>
        /\ totalKmCost = SumMileage(NumCustomers)
        /\ FooterAmount(kmFooter) = totalKmCost
        /\ TwoCustomers(42, 10, 120, 10) =>
              /\ kmCost(Len(DaysOf(0)), cfg.Customers[1].Distance) = 12600
              /\ kmCost(Len(DaysOf(1)), cfg.Customers[2].Distance) = 36000
              /\ totalKmCost = 48600

\* The documents of a month are built in which the customers with 42 km
\* and 120 km hold 10 days each: the mileage footer shows 486,00.
C11_Witness ==
    /\ pc = "pdf_km"
    /\ TwoCustomers(42, 10, 120, 10)
    /\ totalKmCost = 48600
    /\ SelectSeq(kmFooter, IsDigit) = <<"4", "8", "6", "0", "0">>

(***************************************************************************)
(* C12: the meal allowance footer shows 14.00 EUR times the number of      *)
(* assigned days of all customers, whoever the days were assigned to.      *)
(***************************************************************************)
C12_MealAllowance ==
    DocumentsBuilt =>
        /\ FooterAmount(verpFooter) = 1400 * SumLen(NumCustomers)
        /\ FooterAmount(verpFooter) = 1400 * Cardinality(Accepted)

\* The documents of a month with 20 assigned days shared by two customers:
\* the meal allowance footer shows 280,00.
C12_Witness ==
    /\ pc = "pdf_km"
    /\ NumCustomers = 2
    /\ SumLen(NumCustomers) = 20
    /\ SelectSeq(verpFooter, IsDigit) = <<"2", "8", "0", "0", "0">>

(***************************************************************************)
(* C13: daysInMonth returns the Gregorian length of the month: 31 or 30    *)
(* by month, and for February 29 exactly when the year is divisible by 4   *)
(* and not by 100 unless by 400, otherwise 28; December included.          *)
(***************************************************************************)
LeapYear(y) == y % 4 = 0 /\ (y % 100 # 0 \/ y % 400 = 0)

GregorianLength(y, m) ==
    IF m \in {1, 3, 5, 7, 8, 10, 12} THEN 31
    ELSE IF m \in {4, 6, 9, 11} THEN 30
    ELSE IF LeapYear(y) THEN 29 ELSE 28

C13_DaysInMonthGregorian ==
    test.step = "days" => test.days = GregorianLength(test.year, test.month)

\* daysInMonth has returned 28 for February 1900, a year divisible by 4
\* and by 100 and not by 400.
C13_Witness ==
    /\ test.step = "days"
    /\ test.year = 1900 /\ test.month = 2
    /\ test.days = 28

C15_OptionOnlyDecidesClosureDates ==
    (test.step = "done" /\ ~ClosureDate(test.month, test.day)) =>
        /\ test.got = isBusinessDay(test.cal, test.year, test.month, test.day,
                                    ~test.christmasWeekOff)
        /\ test.got <=>
              /\ ~SatOrSun(test.year, test.month, test.day)
              /\ ~\E h \in RegionHolidays(test.province) :
                      HolidayOn(h, test.year, test.month, test.day)

\* isWorkday, called with the option off, has rejected 26 December 2025, a
\* Friday and a holiday, for the calendar of Saxony.
C15_Witness ==
    /\ test.step = "done"
    /\ ~test.christmasWeekOff
    /\ test.year = 2025 /\ test.month = 12 /\ test.day = 26
    /\ test.province = "SN"
    /\ ~test.got

(***************************************************************************)
(* C16: the distribution yields the first and the last assigned date of    *)
(* the month, and the line Abrechnungszeitraum of both document headers    *)
(* runs from the first assigned date to the last assigned date.            *)
(***************************************************************************)
\* The two dates of the line "Abrechnungszeitraum:  <start> - <end>".
HeaderPeriod(header) ==
    LET k    == CHOOSE i \in 1..Len(header) : header[i] = "Abrechnungszeitraum:  "
        rest == SubSeq(header, k + 1, Len(header))
        e    == CHOOSE i \in 1..Len(rest) :
                    rest[i] = NL /\ \A j \in 1..(i - 1) : rest[j] # NL
        line == SubSeq(rest, 1, e - 1)
        sep  == CHOOSE i \in 1..Len(line) : line[i] = " - "
    IN  [start |-> SubSeq(line, 1, sep - 1), end |-> SubSeq(line, sep + 1, Len(line))]

\* The day numbers of all assigned dates.
AssignedDayNumbers == UNION {{DayNumberOf(ds) : ds \in AssignedTo(i)} : i \in CustomerIdxs}

C17_NoPartialEmail ==
    /\ pc = "panic" => outbox = <<>>
    /\ (kmData = NoData \/ verpData = NoData) => outbox = <<>>
    /\ \A k \in 1..Len(outbox) :
          LET a == outbox[k].Attachments
          IN  /\ pc = "done"
              /\ Len(a) = 2
              /\ a[1].Data = kmData /\ a[2].Data = verpData
              /\ Len(kmData.placed) = Len(kmBlocks) + 2
              /\ Len(verpData.placed) = Len(verpBlocks) + 2

\* The run has panicked on an error of the second createPDF: the mileage
\* document is rendered, the meal allowance document is not, and no email
\* was delivered.
C17_Witness ==
    /\ pc = "panic"
    /\ kmData # NoData
    /\ verpData = NoData
    /\ outbox = <<>>

(***************************************************************************)
(* C18: createPDF writes the header, every block and the footer entirely   *)
(* on one page, and starts a new page before a block or the footer exactly *)
(* when its height (the number of its line feeds plus one, times the line  *)
(* height) does not fit above the bottom margin of the current page.       *)
(***************************************************************************)
\* The texts createPDF writes, in order.
Texts(header, blocks, footer) == <<header>> \o blocks \o <<footer>>

PageOf(placement) == CHOOSE p \in placement.pages : TRUE

NoSplit(data, texts) ==
    /\ Len(data.placed) = Len(texts)
    /\ \A k \in 1..Len(texts) :
          /\ Cardinality(data.placed[k].pages) = 1
          /\ data.placed[k].yEnd <= pdfPageHeight - pdfMarginBottom
    /\ \A k \in 2..Len(texts) :
          LET height == (stringsCount(texts[k]) + 1) * pdfLineHeight
              before == data.placed[k - 1]
          IN  (PageOf(data.placed[k]) # PageOf(before))
                 <=> (before.yEnd + height > pdfPageHeight - pdfMarginBottom)

C18_BlocksNeverSplit ==
    /\ pc = "pdf_verp" => NoSplit(kmData, Texts(kmHeader, kmBlocks, kmFooter))
    /\ pc = "email" => NoSplit(verpData, Texts(verpHeader, verpBlocks, verpFooter))

\* The mileage document is rendered on more than one page: a new page was
\* started before a block that no longer fitted on the first page.
C18_Witness ==
    /\ pc = "pdf_verp"
    /\ \E k \in 2..Len(kmData.placed) :
          /\ PageOf(kmData.placed[k - 1]) = 1
          /\ PageOf(kmData.placed[k]) = 2
          /\ kmData.placed[k - 1].yEnd < pdfPageHeight - pdfMarginBottom

(***************************************************************************)
(* C19: two runs with the same target month, the same customers in the     *)
(* same order and the same option give the same per-customer day lists,    *)
(* the same total and the same last date; their documents (headers,        *)
(* blocks, footers and layout) differ at most in the four random           *)
(* characters of the document reference number.                            *)
(***************************************************************************)
\* The position of the label of the reference number in a header.
ReferenceLabel(header) == CHOOSE k \in 1..Len(header) : header[k] = "Beleg-Nr.:            "

\* The positions of the random characters: the last four of the line.
ReferenceChars(header) ==
    LET from == ReferenceLabel(header)
        eol  == CHOOSE k \in from..Len(header) :
                    header[k] = NL /\ \A j \in from..(k - 1) : header[j] # NL
    IN  (eol - 4)..(eol - 1)

SameButReference(h1, h2) ==
    /\ Len(h1) = Len(h2)
    /\ ReferenceChars(h1) = ReferenceChars(h2)
    /\ \A k \in (1..Len(h1)) \ ReferenceChars(h1) : h1[k] = h2[k]

SecondRun == firstRun.pc = "done"

C20_UnevenDistributionExists == test.input = NumInputs => test.uneven > 0

(***************************************************************************)
(* C20, as the code has it: a day rejected for the cursor customer is      *)
(* assigned to nobody, so the number A of assigned days lies between the   *)
(* number of days that are business days for every customer and the number *)
(* that are business days for at least one; but the counts are always the  *)
(* floor/ceil split of A: customer i gets A div N days, plus one if         *)
(* i < A mod N, and no two counts differ by more than one.                 *)
(***************************************************************************)
\* Whether day d of the entry's month is a business day in the region of
\* the entry's customer i.
TestBusinessDay(i, d) ==
    /\ ~SatOrSun(test.year, test.month, d)
    /\ ~(\E h \in RegionHolidays(test.provinces[i + 1]) :
            HolidayOn(h, test.year, test.month, d))
    /\ ~(test.christmasWeekOff /\ ClosureDate(test.month, d))

TestDays == 1..GregorianLength(test.year, test.month)
TestCustomers == 0..(Len(test.provinces) - 1)

RECURSIVE SumCounts(_, _)
SumCounts(counts, n) == IF n = 0 THEN 0 ELSE SumCounts(counts, n - 1) + counts[n - 1]

C20_CountsWithinOne ==
    test.input > 0 =>
        LET N == Len(test.provinces)
            A == SumCounts(test.counts, N)
        IN  /\ \A i \in TestCustomers :
                  test.counts[i] = (A \div N) + (IF i < A % N THEN 1 ELSE 0)
            /\ ~Uneven(test.counts, N)
            /\ test.uneven = 0
            /\ A >= Cardinality({d \in TestDays : \A i \in TestCustomers : TestBusinessDay(i, d)})
            /\ A <= Cardinality({d \in TestDays : \E i \in TestCustomers : TestBusinessDay(i, d)})

\* An entry with two customers of different regions whose holidays diverge
\* in the month: a day that is a business day for one of them was assigned
\* to nobody, so that the customers share fewer days than either would have
\* been offered alone, and the counts still differ by at most one.
C20_Witness ==
    /\ test.input > 0
    /\ Len(test.provinces) = 2
    /\ test.provinces[1] # test.provinces[2]
    /\ \E d \in TestDays : TestBusinessDay(0, d) # TestBusinessDay(1, d)
    /\ SumCounts(test.counts, 2)
          < Cardinality({d \in TestDays : \E i \in TestCustomers : TestBusinessDay(i, d)})
    /\ test.counts[0] = test.counts[1] + 1

(***************************************************************************)
(* C21: for a single customer of region BW, the distribution of February   *)
(* 2026 assigns exactly the 20 weekdays of the month (2-6, 9-13, 16-20,    *)
(* 23-27 February) to that customer, in ascending order, and nothing else. *)
(***************************************************************************)
Feb2026Weekdays == <<2, 3, 4, 5, 6, 9, 10, 11, 12, 13, 16, 17, 18, 19, 20, 23, 24, 25, 26, 27>>

\* The distribution of the month m of 2026 is over.
Distributed2026(m) ==
    /\ pc \in {"blocks", "headers", "pdf_km", "pdf_verp", "email", "done"}
    /\ year = 2026 /\ month = m

C21_February2026 ==
    (Distributed2026(2) /\ NumCustomers = 1 /\ cfg.Customers[1].Province = "BW") =>
        /\ numDays = 28
        /\ DOMAIN customerDays = {0}
        /\ Len(customerDays[0]) = Len(Feb2026Weekdays)
        /\ \A k \in 1..Len(Feb2026Weekdays) :
              ParseDate(customerDays[0][k])
                 = [day |-> Feb2026Weekdays[k], month |-> 2, year |-> 2026]
        /\ totalWorkdays = Len(Feb2026Weekdays)

\* February 2026 is distributed to the single customer of region BW, who
\* has 20 days, the first on the 2nd and the last on the 27th.
C21_Witness ==
    /\ pc = "blocks"
    /\ year = 2026 /\ month = 2
    /\ NumCustomers = 1
    /\ cfg.Customers[1].Province = "BW"
    /\ Len(DaysOf(0)) = 20
    /\ ParseDate(DaysOf(0)[1]).day = 2
    /\ ParseDate(DaysOf(0)[20]).day = 27

(***************************************************************************)
(* C22: for region BW and December 2026 with the option on, the assigned   *)
(* days are exactly the 17 weekdays 1-4, 7-11, 14-18 and 21-23 December:   *)
(* 24 December (a Thursday) and 28 to 31 December are weekdays and no      *)
(* holidays but rejected, 27 December is rejected too, 25 December is a    *)
(* holiday and 26 December a holiday on a Saturday.                        *)
(***************************************************************************)
Dec2026Assigned == (1..4) \cup (7..11) \cup (14..18) \cup (21..23)

\* Every customer's calendar is that of region BW.
AllRegionBW == \A i \in CustomerIdxs : cfg.Customers[i + 1].Province = "BW"

\* The days of the target month in the customers' lists.
AssignedDays == UNION {{ParseDate(ds).day : ds \in AssignedTo(i)} : i \in CustomerIdxs}

C22_December2026 ==
    (Distributed2026(12) /\ NumCustomers > 0 /\ AllRegionBW /\ christmasWeekOff) =>
        /\ AssignedDays = Dec2026Assigned
        /\ totalWorkdays = 17
        /\ Weekday(2026, 12, 24) = 4
        /\ \A d \in {24, 28, 29, 30, 31} :
              ~SatOrSun(2026, 12, d) /\ ~OwnHoliday(0, 2026, 12, d)
        /\ OwnHoliday(0, 2026, 12, 25) /\ ~SatOrSun(2026, 12, 25)
        /\ OwnHoliday(0, 2026, 12, 26) /\ Weekday(2026, 12, 26) = 6
        /\ \A k \in 1..Len(filterLog) :
              filterLog[k].day >= 24 => ~filterLog[k].ok

\* December 2026 is distributed for a customer of region BW with the
\* option on: the last assigned day is the 23rd, and the 24th and the 28th
\* were tested and rejected.
C22_Witness ==
    /\ pc = "blocks"
    /\ year = 2026 /\ month = 12
    /\ NumCustomers = 1 /\ AllRegionBW
    /\ christmasWeekOff
    /\ ParseDate(lastDateString).day = 23
    /\ \A d \in {24, 28} : \E k \in 1..Len(filterLog) :
          filterLog[k].day = d /\ ~filterLog[k].ok

(***************************************************************************)
(* C23: each document holds, for each customer in configuration order that *)
(* has at least one assigned day, the customer's header block followed by  *)
(* one entry block per assigned date in the order of the customer's list;  *)
(* a customer without days contributes no block; both documents hold the   *)
(* same number of blocks, for the same customers and dates.                *)
(***************************************************************************)
RECURSIVE BlocksBefore(_)
\* The number of blocks of the customers before customer i.
BlocksBefore(i) ==
    IF i = 0 THEN 0
    ELSE BlocksBefore(i - 1)
            + (IF Len(DaysOf(i - 1)) = 0 THEN 0 ELSE 1 + Len(DaysOf(i - 1)))

C23_BlockStructure ==
    pc = "headers" =>
        /\ Len(kmBlocks) = BlocksBefore(NumCustomers)
        /\ Len(verpBlocks) = Len(kmBlocks)
        /\ \A i \in CustomerIdxs :
              LET customer == cfg.Customers[i + 1]
                  days     == DaysOf(i)
                  at       == BlocksBefore(i)
              IN  Len(days) > 0 =>
                     /\ kmBlocks[at + 1] = buildCustomerHeader(customer)
                     /\ verpBlocks[at + 1] = buildCustomerHeader(customer)
                     /\ \A k \in 1..Len(days) :
                           /\ kmBlocks[at + 1 + k]
                                 = buildKilometerEntry(days[k], customer.Distance)
                           /\ verpBlocks[at + 1 + k] = buildMealAllowanceEntry(days[k])

\* The blocks of a month are built for more customers than days were
\* assigned: the first customer has one day, the last none, and both
\* documents hold two blocks per assigned day.
C23_Witness ==
    /\ pc = "headers"
    /\ NumCustomers > totalWorkdays
    /\ totalWorkdays > 0
    /\ Len(DaysOf(0)) = 1
    /\ Len(DaysOf(NumCustomers - 1)) = 0
    /\ Len(kmBlocks) = 2 * totalWorkdays
    /\ Len(verpBlocks) = 2 * totalWorkdays

(***************************************************************************)
(* C24, as stated: once the email is sent both PDF files are removed, and  *)
(* no run ends leaving a generated PDF file on disk.                       *)
(***************************************************************************)
\* The run has ended: normally, by the version flag, or in a panic.
RunEnded == pc \in {"done", "exit", "panic"}

C24_NoFileLeftOnDisk ==
    /\ (pc = "done" /\ outbox # <<>>) => files = {}
    /\ RunEnded => files = {}

(***************************************************************************)
(* C25: a run that ends normally has sent exactly one email, after both    *)
(* documents were rendered, with exactly two attachments, the mileage      *)
(* document MM_YYYY_Reisekosten_Kilometergelderstattung.pdf and the meal   *)
(* allowance document MM_YYYY_Reisekosten_Verpflegungsmehraufwand.pdf, and *)
(* with the target month and year as MM/YYYY in the subject; before the    *)
(* end of the run no email is sent.                                        *)
(***************************************************************************)
\* The name is MM_YYYY followed by the suffix, for the target month.
NamedFor(name, suffix) ==
    /\ Len(name) = 8
    /\ \A k \in {1, 2, 4, 5, 6, 7} : IsDigit(name[k])
    /\ Atoi(SubSeq(name, 1, 2)) = month
    /\ name[3] = "_"
    /\ Atoi(SubSeq(name, 4, 7)) = year
    /\ name[8] = suffix

\* The subject ends with MM/YYYY of the target month.
SubjectFor(subject) ==
    LET n == Len(subject)
    IN  /\ n >= 7
        /\ \A k \in {n - 6, n - 5, n - 3, n - 2, n - 1, n} : IsDigit(subject[k])
        /\ Atoi(SubSeq(subject, n - 6, n - 5)) = month
        /\ subject[n - 4] = "/"
        /\ Atoi(SubSeq(subject, n - 3, n)) = year

C25_OneEmailTwoAttachments ==
    /\ pc # "done" => outbox = <<>>
    /\ pc = "done" =>
          /\ Len(outbox) = 1
          /\ kmData # NoData /\ verpData # NoData
          /\ LET msg == outbox[1]
             IN  /\ Len(msg.Attachments) = 2
                 /\ NamedFor(msg.Attachments[1].Filename,
                             "_Reisekosten_Kilometergelderstattung.pdf")
                 /\ msg.Attachments[1].Data = kmData
                 /\ NamedFor(msg.Attachments[2].Filename,
                             "_Reisekosten_Verpflegungsmehraufwand.pdf")
                 /\ msg.Attachments[2].Data = verpData
                 /\ SubjectFor(msg.Subject)
                 /\ msg.To = cfgFile.email.To

\* The run for a month before October has ended: one email with two
\* attachments whose names start with the zero-padded month.
C25_Witness ==
    /\ pc = "done"
    /\ month < 10
    /\ Len(outbox) = 1
    /\ Len(outbox[1].Attachments) = 2
    /\ outbox[1].Attachments[1].Filename[1] = "0"
    /\ outbox[1].Attachments[2].Filename[1] = "0"

(***************************************************************************)
(* C26: when the first argument is --version or -v the run ends without    *)
(* any core logic: no configuration is loaded (not even a missing one is   *)
(* noticed), no calendar is built, no day is tested or assigned, no        *)
(* document is built or rendered and no email is sent.                     *)
(***************************************************************************)
VersionArg == Len(osArgs) > 1 /\ osArgs[2] \in {VersionLong, VersionShort}

C26_VersionBypassesCoreLogic ==
    /\ VersionArg =>
          /\ pc \in {"start", "exit"}
          /\ cfg = NoConfig
          /\ calendars = <<>>
          /\ year = 0 /\ month = 0 /\ day = 0
          /\ filterLog = <<>>
          /\ customerDays = EmptyMap
          /\ totalWorkdays = 0
          /\ NoDocuments
    /\ pc = "exit" => VersionArg

\* The run with -v and an unreadable configuration file has ended.
C26_Witness ==
    /\ pc = "exit"
    /\ osArgs[2] = VersionShort
    /\ cfgFile.status = "unreadable"
    /\ outbox = <<>>

(***************************************************************************)
(* C27: the target year and month are those of the first argument when it  *)
(* is M/YYYY or MM/YYYY with a month 1..12 and a year 2000..2099, and      *)
(* those of the current date when there is no argument; an argument of any *)
(* other form is no error and gives the current year and month too; the    *)
(* month of the distribution is always within 1..12.                       *)
(***************************************************************************)
\* The argument is M/YYYY or MM/YYYY, month 1..12, year 2000..2099.
MonthYearArg(arg) ==
    \E p \in {2, 3} :
        /\ Len(arg) = p + 4
        /\ arg[p] = "/"
        /\ \A k \in (1..Len(arg)) \ {p} : IsDigit(arg[k])
        /\ Atoi(SubSeq(arg, 1, p - 1)) \in 1..12
        /\ Atoi(SubSeq(arg, p + 1, p + 4)) \in 2000..2099

\* The month and year of such an argument.
ArgMonth(arg) == Atoi(SubSeq(arg, 1, Len(arg) - 5))
ArgYear(arg) == Atoi(SubSeq(arg, Len(arg) - 3, Len(arg)))

\* The target month is set: the configuration was loaded.
TargetSet == pc \notin {"start", "exit"} /\ (pc = "panic" => cfg # NoConfig)

C27_TargetMonth ==
    /\ TargetSet =>
          /\ month \in 1..12
          /\ IF Len(osArgs) > 1 /\ MonthYearArg(osArgs[2])
             THEN year = ArgYear(osArgs[2]) /\ month = ArgMonth(osArgs[2])
             ELSE year = now.year /\ month = now.month
    /\ (pc = "panic" /\ cfg = NoConfig) => BadConfig

\* A run with the argument 13/2026 in February: the distribution is that of
\* the current month, and nothing failed.
C27_Witness ==
    /\ pc = "blocks"
    /\ Len(osArgs) > 1
    /\ ~MonthYearArg(osArgs[2])
    /\ Atoi(SubSeq(osArgs[2], 1, 2)) = 13
    /\ year = now.year /\ month = 2
    /\ totalWorkdays > 0

(***************************************************************************)
(* C28: in every state of the distribution the cursor is within 0..N-1 and *)
(* equals the number of days assigned so far modulo N; the k-th assigned   *)
(* day of the month (from 0) is in the list of customer k mod N whatever   *)
(* the customers' calendars are: the lists are those distributeWorkdays    *)
(* makes of the assigned days in the order of their assignment.            *)
(***************************************************************************)
\* The dates of the days the filter accepted, in the order of the loop.
AssignedInOrder ==
    LET ok == SelectSeq(filterLog, LAMBDA e : e.ok)
    IN  [k \in 1..Len(ok) |-> formatDate(year, month, ok[k].day)]

\* The configuration is loaded and the distribution runs or is over.
Distributing == pc \notin {"start", "exit"} /\ cfg # NoConfig

C28_CursorIsCountModN ==
    Distributing =>
        /\ customerIdx \in 0..(NumCustomers - 1)
        /\ customerIdx = totalWorkdays % NumCustomers
        /\ totalWorkdays = Len(AssignedInOrder)
        /\ pc \in {"loop", "blocks"} =>
              /\ customerDays = distributeWorkdays(AssignedInOrder, NumCustomers)
              /\ \A k \in 0..(totalWorkdays - 1) :
                    LET list == DaysOf(k % NumCustomers)
                    IN  list[(k \div NumCustomers) + 1] = AssignedInOrder[k + 1]

\* A month is distributed to five customers of three regions: a day was
\* rejected for the cursor customer that another customer's calendar
\* accepts, every customer has several days, and the cursor stands at the
\* number of assigned days modulo five, which is not zero.
C28_Witness ==
    /\ pc = "blocks"
    /\ NumCustomers = SomeCustomers
    /\ \E k \in 1..Len(filterLog) :
         /\ ~filterLog[k].ok
         /\ \E j \in CustomerIdxs : BusinessDayFor(j, filterLog[k].day)
    /\ \A i \in CustomerIdxs : Len(DaysOf(i)) >= 2
    /\ customerIdx = totalWorkdays % NumCustomers
    /\ customerIdx # 0

(***************************************************************************)
(* C29: the total the mileage footer prints is the sum of the amounts      *)
(* printed on the entry blocks of the mileage document, each entry         *)
(* printing the distance of its customer times 0,30 EUR; the total of the  *)
(* meal allowance footer is 14,00 EUR times the number of entry blocks of  *)
(* the meal allowance document.                                            *)
(***************************************************************************)
\* A block is an entry of a date, not the header of a customer.
IsEntryBlock(block) == block[1] = "  "

\* The amount a block prints before its " EUR", in cents.
PrintedAmount(block) ==
    LET e     == CHOOSE i \in 1..Len(block) : block[i] = " EUR"
        IsAmt(i) == IsDigit(block[i]) \/ block[i] = ","
        start == CHOOSE j \in 1..e :
                    /\ \A i \in j..(e - 1) : IsAmt(i)
                    /\ j > 1 => ~IsAmt(j - 1)
    IN  Atoi(SelectSeq(SubSeq(block, start, e - 1), IsDigit))

\* The distance a mileage entry prints in its label, in km.
PrintedDistance(block) ==
    LET a == CHOOSE i \in 1..Len(block) : block[i] = "Fahrkosten ("
        b == CHOOSE i \in 1..Len(block) : block[i] = " km x 0,30 EUR)"
    IN  Atoi(SubSeq(block, a + 1, b - 1))

RECURSIVE SumPrinted(_, _)
\* The sum of the amounts printed on the entries among the first n blocks.
SumPrinted(blocks, n) ==
    IF n = 0 THEN 0
    ELSE SumPrinted(blocks, n - 1)
            + (IF IsEntryBlock(blocks[n]) THEN PrintedAmount(blocks[n]) ELSE 0)

\* The number of entries among the blocks.
NumEntries(blocks) == Cardinality({n \in 1..Len(blocks) : IsEntryBlock(blocks[n])})

C29_FootersSumTheEntries ==
    DocumentsBuilt =>
        /\ FooterAmount(kmFooter) = SumPrinted(kmBlocks, Len(kmBlocks))
        /\ \A i \in CustomerIdxs :
              \A k \in 1..Len(DaysOf(i)) :
                 LET block == kmBlocks[BlocksBefore(i) + 1 + k]
                 IN  /\ IsEntryBlock(block)
                     /\ PrintedDistance(block) = cfg.Customers[i + 1].Distance
                     /\ PrintedAmount(block) = PrintedDistance(block) * 30
        /\ NumEntries(kmBlocks) = totalWorkdays
        /\ FooterAmount(verpFooter) = 1400 * NumEntries(verpBlocks)
        /\ \A n \in 1..Len(verpBlocks) :
              IsEntryBlock(verpBlocks[n]) =>
                 \E i \in 1..Len(verpBlocks[n]) : verpBlocks[n][i] = "14,00 EUR"

\* The documents of five customers with three different distances are
\* built: the mileage entries print three different amounts and the footers
\* print the sums.
C29_Witness ==
    /\ pc = "done"
    /\ NumCustomers = SomeCustomers
    /\ NumEntries(kmBlocks) >= 17
    /\ {PrintedAmount(kmBlocks[n]) :
           n \in {j \in 1..Len(kmBlocks) : IsEntryBlock(kmBlocks[j])}}
         = {1260, 3600, 210}
    /\ FooterAmount(kmFooter) = SumPrinted(kmBlocks, Len(kmBlocks))
    /\ FooterAmount(verpFooter) = 1400 * NumEntries(verpBlocks)

(***************************************************************************)
(* C30: documentID(year, month) returns RK-YYYY-MM-XXXX whatever bytes are *)
(* drawn: "RK-", the given year, "-", the month in two digits with a       *)
(* leading zero below ten, "-", and exactly four characters each of A-Z    *)
(* or 0-9; with a year of four digits the reference is 15 characters long. *)
(***************************************************************************)
\* The capital letters and the digits.
UpperOrDigit ==
    {"A", "B", "C", "D", "E", "F", "G", "H", "I", "J", "K", "L", "M", "N", "O",
     "P", "Q", "R", "S", "T", "U", "V", "W", "X", "Y", "Z"}
        \cup {Digits[i] : i \in 1..10}

\* The text is a decimal number without sign and without leading zero.
IsNumber(s) == /\ Len(s) > 0
               /\ \A i \in 1..Len(s) : IsDigit(s[i])
               /\ Len(s) > 1 => s[1] # "0"

C30_DocumentIDForm ==
    test.step = "id" =>
        LET id == test.id
            n  == Len(id)
        IN  /\ n >= 9
            /\ id[1] = "RK-"
            /\ IsNumber(SubSeq(id, 2, n - 8))
            /\ Atoi(SubSeq(id, 2, n - 8)) = test.year
            /\ id[n - 7] = "-"
            /\ IsDigit(id[n - 6]) /\ IsDigit(id[n - 5])
            /\ Atoi(SubSeq(id, n - 6, n - 5)) = test.month
            /\ id[n - 4] = "-"
            /\ \A i \in (n - 3)..n : id[i] \in UpperOrDigit
            /\ test.year \in 1000..9999 => len(id) = 15

\* documentID(2026, 2) with the first byte 255, beyond the 36 characters of
\* the charset, and the other bytes 0: the reference is RK-2026-02-DAAA.
C30_Witness ==
    /\ test.step = "id"
    /\ test.year = 2026 /\ test.month = 2
    /\ test.bytes = <<255, 0, 0, 0>>
    /\ test.id = <<"RK-", "2", "0", "2", "6", "-", "0", "2", "-",
                   "D", "A", "A", "A">>
    /\ len(test.id) = 15

=============================================================================
